---- MODULE Spec2Model ----
(***************************************************************************)
(* Model of the Nakamoto block-miner thread                                *)
(* (testnet/stacks-node/src/nakamoto_node/miner.rs).                       *)
(*                                                                         *)
(* Two specifications share the module:                                    *)
(*   SpecLife  a chain of miner threads, each handed the JoinHandle of the *)
(*             previous one (stop_miner and the head of run_miner);        *)
(*   Spec      one miner thread running the loop of run_miner against a    *)
(*             changing environment (burn tip, stacks tip, clock, signers, *)
(*             databases).                                                 *)
(***************************************************************************)
EXTENDS Integers, Sequences, FiniteSets, TLC

(* ------------------------------ bounds --------------------------------- *)
\* miner threads the relayer spawns one after the other (SpecLife)
MaxWorkers == 3
\* blocks one miner thread assembles before the model stops it building
MaxBuilt == 2
\* last value of the wall clock, in seconds
MaxTime == 2

(* ------------------------- program constants --------------------------- *)
ABORT_TRY_AGAIN_MS == 200

(* ------------------------------ values --------------------------------- *)
\* Option<T>: None is the empty sequence, Some(x) the sequence of x alone.
None == <<>>
Some(x) == <<x>>
IsSome(o) == o # <<>>
IsNone(o) == o = <<>>

\* Result<T, E>
Ok(v) == [ok |-> TRUE, err |-> "", val |-> v]
Err(e) == [ok |-> FALSE, err |-> e, val |-> None]

VARIABLES
    \* ---- SpecLife: the chain of miner threads
    wpc,            \* thread -> where it is in run_miner
    wres,           \* thread -> what its JoinHandle yields ("" while running)
    wstop,          \* thread -> what its stop_miner returned ("" if not returned)
    miner_blocked,  \* the global miner-blocked gate (Globals)
    \* ---- Spec: one miner thread
    miner,          \* the BlockMinerThread struct's fields that change or decide
    config,         \* the Config keys the thread reads
    pc,             \* where the thread is in run_miner
    result,         \* what run_miner returned (None while it runs)
    cur,            \* the block in flight: Option<NakamotoBlock>
    elapsed,        \* wait_start.elapsed() in ms, in the interim wait
    counters,       \* globals.counters
    initiative,     \* calls of globals.raise_initiative
    announced,      \* calls of coord().announce_new_stacks_block
    \* ---- Spec: the environment
    burn_tip,       \* consensus hash of the canonical burn chain tip
    flip_in_wait,   \* history: the burn tip changed during the interim wait
    stacks_tip,     \* block id of the canonical Stacks tip
    headers,        \* block id -> StacksHeaderInfo of the processed blocks
    staging,        \* blocks committed to the staging store
    now,            \* get_epoch_time_secs(), as last read
    TEST_SKIP_P2P_BROADCAST,  \* the test static: Some(true) was stored in it
    \* ---- Spec: history
    emitted,        \* the blocks whose broadcast returned Ok, in order
    log,            \* the commit and push events of the last broadcast, in order
    exit_cause,     \* the error that ended the thread, before run_miner mapped it
    step_err        \* the error the thread's last step met ("" if it met none)

lifeVars == <<wpc, wres, wstop, miner_blocked>>
minerVars == <<miner, config, pc, result, cur, elapsed, counters, initiative, announced>>
tipVars == <<burn_tip, flip_in_wait>>
envVars == <<tipVars, stacks_tip, headers, staging, now, TEST_SKIP_P2P_BROADCAST>>
histVars == <<emitted, log, exit_cause, step_err>>
vars == <<lifeVars, minerVars, envVars, histVars>>

(* ==================== SpecLife: the chain of threads =================== *)
Workers == 1..MaxWorkers

\* Errors the mining loop of run_miner ends with (run_miner, lines 288-445).
LoopErrors ==
    {"MiningFailure(MinerAborted)", "ParentNotFound", "StacksTipChanged",
     "BurnchainTipChanged"}

Terminated(w) == wpc[w] \in {"exited", "panicked"}

\* The relayer starts thread w, moving into it the JoinHandle of thread w-1
\* (None for the first thread).
spawn(w) ==
    /\ wpc[w] = "unspawned"
    /\ UNCHANGED <<minerVars, envVars, histVars>>
    /\ w > 1 => wpc[w - 1] # "unspawned"
    /\ wpc' = [wpc EXCEPT ![w] = "entry"]
    /\ UNCHANGED <<wres, wstop, miner_blocked>>

\* Globals::block_miner and Globals::unblock_miner: the gate as the spec
\* gives it, one flag.
block_miner == TRUE
unblock_miner == FALSE

\* run_miner up to the call of stop_miner, and stop_miner up to the join:
\* with no prior miner the thread goes on to StackerDBs::connect, with one it
\* raises the gate and starts joining.
run_miner_entry(w) ==
    /\ wpc[w] = "entry"
    /\ UNCHANGED <<minerVars, envVars, histVars>>
    /\ IF w = 1
         THEN /\ wpc' = [wpc EXCEPT ![w] = "connect"]
              /\ UNCHANGED miner_blocked
         ELSE /\ miner_blocked' = block_miner
              /\ wpc' = [wpc EXCEPT ![w] = "joining"]
    /\ UNCHANGED <<wres, wstop>>

\* stop_miner with a join that does not wait for the prior thread.
stop_miner_detached(w) ==
    /\ wpc[w] = "joining"
    /\ UNCHANGED <<minerVars, envVars, histVars>>
    /\ wstop' = [wstop EXCEPT ![w] = "Ok"]
    /\ miner_blocked' = unblock_miner
    /\ wpc' = [wpc EXCEPT ![w] = "connect"]
    /\ UNCHANGED wres

\* stop_miner passing the prior thread's error on to its caller.
stop_miner_propagating(w) ==
    /\ wpc[w] = "joining"
    /\ UNCHANGED <<minerVars, envVars, histVars>>
    /\ Terminated(w - 1)
    /\ LET e == IF wpc[w - 1] = "panicked"
                  THEN "MiningFailure(MinerAborted)" ELSE wres[w - 1]
       IN /\ wstop' = [wstop EXCEPT ![w] = e]
          /\ wres' = [wres EXCEPT ![w] = e]
          /\ wpc' = [wpc EXCEPT ![w] = "exited"]
          /\ miner_blocked' = IF wpc[w - 1] = "panicked"
                                THEN miner_blocked ELSE unblock_miner

\* stop_miner from the join on.  join() returns once the prior thread has
\* terminated: Err if it panicked (stop_miner returns MinerAborted through
\* `?`, before unblock_miner), its result otherwise (an error in it is only
\* logged; the gate is cleared and stop_miner returns Ok).
stop_miner_join(w) ==
    /\ wpc[w] = "joining"
    /\ UNCHANGED <<minerVars, envVars, histVars>>
    /\ Terminated(w - 1)
    /\ IF wpc[w - 1] = "panicked"
         THEN /\ wstop' = [wstop EXCEPT ![w] = "MiningFailure(MinerAborted)"]
              /\ wres' = [wres EXCEPT ![w] = "MiningFailure(MinerAborted)"]
              /\ wpc' = [wpc EXCEPT ![w] = "exited"]
              /\ UNCHANGED miner_blocked
         ELSE /\ wstop' = [wstop EXCEPT ![w] = "Ok"]
              /\ miner_blocked' = unblock_miner
              /\ wpc' = [wpc EXCEPT ![w] = "connect"]
              /\ UNCHANGED wres

\* StackerDBs::connect: into the loop, or out with MiningFailure(NetError).
run_miner_connect(w) ==
    /\ wpc[w] = "connect"
    /\ UNCHANGED <<minerVars, envVars, histVars>>
    /\ \/ /\ wpc' = [wpc EXCEPT ![w] = "loop"]
          /\ UNCHANGED wres
       \/ /\ wpc' = [wpc EXCEPT ![w] = "exited"]
          /\ wres' = [wres EXCEPT ![w] = "MiningFailure(NetError)"]
    /\ UNCHANGED <<wstop, miner_blocked>>

\* The mining loop seen from outside: the thread is in it until it returns an
\* error or panics (the expect("FATAL: ...") calls).
run_miner_loop_ends(w) ==
    /\ wpc[w] = "loop"
    /\ UNCHANGED <<minerVars, envVars, histVars>>
    /\ \/ \E e \in LoopErrors :
            /\ wpc' = [wpc EXCEPT ![w] = "exited"]
            /\ wres' = [wres EXCEPT ![w] = e]
       \/ /\ wpc' = [wpc EXCEPT ![w] = "panicked"]
          /\ UNCHANGED wres
    /\ UNCHANGED <<wstop, miner_blocked>>

LifeInit ==
    /\ wpc = [w \in Workers |-> "unspawned"]
    /\ wres = [w \in Workers |-> ""]
    /\ wstop = [w \in Workers |-> ""]
    /\ miner_blocked = FALSE

(* ================= Spec: chain state and pure helpers ================== *)

\* Block ids (StacksBlockId) are naturals; consensus hashes are strings.
\* A StacksHeaderInfo: naka tells a Nakamoto header (with its own timestamp)
\* from an epoch-2 one (burn_header_timestamp counts); nonce is the miner
\* account's nonce as of the block.
Header(id, parent, height, ch, naka, ts, burn_ts, nonce) ==
    [id |-> id, parent |-> parent, height |-> height, ch |-> ch, naka |-> naka,
     ts |-> ts, burn_ts |-> burn_ts, nonce |-> nonce]

\* The header a processed block leaves in the headers DB.
HeaderOf(b) ==
    Header(b.id, b.parent_block_id, b.chain_length, b.consensus_hash, TRUE,
           b.timestamp, b.timestamp,
           b.parent_nonce + (IF IsSome(b.tenure_change_tx) THEN 1 ELSE 0)
                          + (IF IsSome(b.coinbase_tx) THEN 1 ELSE 0))

\* NakamotoChainState::get_block_header
get_block_header(hs, id) == IF id \in DOMAIN hs THEN Some(hs[id]) ELSE None

\* The block ids from `id` back to the oldest known ancestor, `id` first.
RECURSIVE AncestorsOf(_, _)
AncestorsOf(hs, id) ==
    IF id \notin DOMAIN hs THEN <<>>
    ELSE <<id>> \o AncestorsOf(hs, hs[id].parent)

\* NakamotoChainState::get_highest_block_header_in_tenure: the highest
\* Nakamoto block of tenure `ch` on the fork that ends in `tip`; an epoch-2
\* tenure has none (line 855: "this is an epoch2 block").
get_highest_block_header_in_tenure(hs, tip, ch) ==
    LET anc == AncestorsOf(hs, tip)
        inTenure == {i \in 1..Len(anc) : hs[anc[i]].ch = ch /\ hs[anc[i]].naka}
    IN IF inTenure = {} THEN None
       ELSE LET top == CHOOSE i \in inTenure :
                           \A j \in inTenure : hs[anc[i]].height >= hs[anc[j]].height
            IN Some(hs[anc[top]])

\* NakamotoChainState::get_nakamoto_tenure_length: the blocks of the tenure of
\* `id` up to and including `id`.
get_nakamoto_tenure_length(hs, id) ==
    LET anc == AncestorsOf(hs, id)
    IN Cardinality({i \in 1..Len(anc) : hs[anc[i]].ch = hs[id].ch})

\* check_burn_tip_changed that reads no tip.
check_burn_tip_changed_blind(m, tip_ch) == Ok(None)

\* check_burn_tip_changed finding the tip unchanged whatever it is.
check_burn_tip_unchanged(m, tip_ch) == Ok(None)

\* check_burn_tip_changed: Err(BurnchainTipChanged) when the canonical burn
\* tip's consensus hash is not the miner's burn_block's.
check_burn_tip_changed(m, tip_ch) ==
    IF tip_ch # m.burn_block THEN Err("BurnchainTipChanged") ELSE Ok(None)

\* u64::saturating_sub
saturating_sub(a, b) == IF a >= b THEN a - b ELSE 0

\* validate_timestamp_info rejecting a block until more than the minimum
\* time has passed.
validate_timestamp_info_strict(cfg, current_timestamp_secs, stacks_parent_header) ==
    LET parent_timestamp == IF stacks_parent_header.naka
                              THEN stacks_parent_header.ts
                              ELSE stacks_parent_header.burn_ts
        time_since_parent_ms ==
            saturating_sub(current_timestamp_secs, parent_timestamp) * 1000
    IN ~(time_since_parent_ms <= cfg.min_time_between_blocks_ms)

\* validate_timestamp_info comparing whole seconds, the minimum cut down to
\* whole seconds.
validate_timestamp_info_rounding_down(cfg, current_timestamp_secs, stacks_parent_header) ==
    LET parent_timestamp ==
            IF stacks_parent_header.naka THEN stacks_parent_header.ts
            ELSE stacks_parent_header.burn_ts
        time_since_parent_secs == saturating_sub(current_timestamp_secs, parent_timestamp)
    IN ~(time_since_parent_secs < cfg.min_time_between_blocks_ms \div 1000)

\* validate_timestamp_info
validate_timestamp_info(cfg, current_timestamp_secs, stacks_parent_header) ==
    LET parent_timestamp == IF stacks_parent_header.naka
                              THEN stacks_parent_header.ts
                              ELSE stacks_parent_header.burn_ts
        time_since_parent_ms ==
            saturating_sub(current_timestamp_secs, parent_timestamp) * 1000
    IN ~(time_since_parent_ms < cfg.min_time_between_blocks_ms)

\* validate_timestamp accepting every block.
validate_timestamp_any(cfg, hs, x) == Ok(TRUE)

\* validate_timestamp: the parent header is looked up by the block's
\* parent_block_id; a missing header is ParentNotFound.
validate_timestamp(cfg, hs, x) ==
    LET h == get_block_header(hs, x.parent_block_id)
    IN IF IsNone(h) THEN Err("ParentNotFound")
       ELSE Ok(validate_timestamp_info(cfg, x.timestamp, h[1]))

\* ParentStacksBlockInfo::lookup, lines 1252-1291, with the parent block
\* accepted whatever the last block of the parent tenure is.
lookup_info_any_parent(parent_tenure_header, stacks_tip_header, last) ==
    LET same == stacks_tip_header.ch = parent_tenure_header.ch
    IN IF same /\ parent_tenure_header.naka /\ IsNone(last)
         THEN Err("ParentNotFound")
       ELSE Ok([stacks_parent_header |-> stacks_tip_header,
                coinbase_nonce |-> stacks_tip_header.nonce,
                parent_tenure |->
                  IF same
                    THEN Some([parent_tenure_blocks |->
                                 IF parent_tenure_header.naka
                                   THEN 1 + last[1].height - parent_tenure_header.height
                                   ELSE 1,
                               parent_tenure_consensus_hash |-> parent_tenure_header.ch])
                    ELSE None])

\* ParentStacksBlockInfo::lookup, lines 1252-1331: the result for the parent
\* tenure's start header, the parent chosen and `last`, the answer of
\* get_highest_block_header_in_tenure for the parent tenure as seen from
\* the parent chosen (consulted only for a Nakamoto parent tenure the parent
\* chosen is in).
lookup_info(parent_tenure_header, stacks_tip_header, last) ==
    LET same == stacks_tip_header.ch = parent_tenure_header.ch
    IN IF same /\ parent_tenure_header.naka /\ IsNone(last)
         THEN Err("ParentNotFound")
       ELSE IF same /\ parent_tenure_header.naka /\ last[1].id # stacks_tip_header.id
         THEN Err("NewParentDiscovered")
       ELSE Ok([stacks_parent_header |-> stacks_tip_header,
                coinbase_nonce |-> stacks_tip_header.nonce,
                parent_tenure |->
                  IF same
                    THEN Some([parent_tenure_blocks |->
                                 IF parent_tenure_header.naka
                                   THEN 1 + last[1].height - parent_tenure_header.height
                                   ELSE 1,
                               parent_tenure_consensus_hash |-> parent_tenure_header.ch])
                    ELSE None])

\* ParentStacksBlockInfo::lookup
lookup(hs, tip_ch, check_burn_block, parent_tenure_id, stacks_tip_header) ==
    IF tip_ch # check_burn_block THEN Err("BurnchainTipChanged")
    ELSE IF IsNone(get_block_header(hs, parent_tenure_id)) THEN Err("ParentNotFound")
    ELSE lookup_info(hs[parent_tenure_id], stacks_tip_header,
                     get_highest_block_header_in_tenure(
                         hs, stacks_tip_header.id, hs[parent_tenure_id].ch))

\* load_block_parent_info, up to the call of lookup: the header to build on.
\* The highest block of the elected tenure on the canonical fork; failing
\* that, of the parent tenure; failing that, the header of parent_tenure_id.
stacks_tip_header_for(m, hs, tip) ==
    LET tenure_tip_opt == get_highest_block_header_in_tenure(hs, tip, m.burn_election_block)
    IN IF IsSome(tenure_tip_opt) THEN Ok(tenure_tip_opt[1])
       ELSE IF IsNone(get_block_header(hs, m.parent_tenure_id)) THEN Err("ParentNotFound")
       ELSE LET parent_tenure_header == hs[m.parent_tenure_id]
                header_opt == get_highest_block_header_in_tenure(
                                  hs, tip, parent_tenure_header.ch)
            IN IF IsSome(header_opt) THEN Ok(header_opt[1])
               ELSE Ok(parent_tenure_header)

\* load_block_parent_info: the result, and whether missed_tenures was bumped.
load_block_parent_info(m, hs, tip, tip_ch) ==
    LET h == stacks_tip_header_for(m, hs, tip)
        r == IF h.ok
               THEN lookup(hs, tip_ch, m.burn_block, m.parent_tenure_id, h.val)
               ELSE Err(h.err)
    IN [res |-> r, missed |-> IF r.err = "BurnchainTipChanged" THEN 1 ELSE 0]

\* TenureChangePayload::extend
extend(payload, burn_view_consensus_hash, last_tenure_block_id, num_blocks_so_far) ==
    [payload EXCEPT !.prev_tenure_consensus_hash = payload.tenure_consensus_hash,
                    !.burn_view_consensus_hash = burn_view_consensus_hash,
                    !.previous_tenure_end = last_tenure_block_id,
                    !.previous_tenure_blocks = num_blocks_so_far,
                    !.cause = "Extended"]

\* make_tenure_start_info: the NakamotoTenureInfo; each transaction is its
\* payload and the nonce it is signed with.
NoTenureInfo == [coinbase_tx |-> None, tenure_change_tx |-> None]

\* The tenure-start transactions with the coinbase signed on the nonce of
\* the tenure change.
tenure_start_txs_same_nonce(m, hs, parent_block_info) ==
    LET current_miner_nonce == parent_block_info.coinbase_nonce
        parent_tenure_info == parent_block_info.parent_tenure[1]
        parent_block_id == parent_block_info.stacks_parent_header.id
        payload ==
          [tenure_consensus_hash |-> m.burn_election_block,
           prev_tenure_consensus_hash |-> parent_tenure_info.parent_tenure_consensus_hash,
           burn_view_consensus_hash |-> m.burn_election_block,
           previous_tenure_end |-> parent_block_id,
           previous_tenure_blocks |-> parent_tenure_info.parent_tenure_blocks,
           cause |-> "BlockFound"]
    IN IF m.reason.kind = "BlockFound"
         THEN [tenure_change_tx |->
                 Some([nonce |-> current_miner_nonce, payload |-> payload]),
               coinbase_tx |-> Some([nonce |-> current_miner_nonce])]
         ELSE [tenure_change_tx |->
                 Some([nonce |-> current_miner_nonce,
                       payload |-> extend(payload,
                                          m.reason.burn_view_consensus_hash,
                                          parent_block_id,
                                          get_nakamoto_tenure_length(hs, parent_block_id))]),
               coinbase_tx |-> None]

\* make_tenure_start_info, lines 1137-1180: the transactions that start the
\* tenure, by the reason the thread was spawned for.
tenure_start_txs(m, hs, parent_block_info) ==
    LET current_miner_nonce == parent_block_info.coinbase_nonce
        parent_tenure_info == parent_block_info.parent_tenure[1]
        parent_block_id == parent_block_info.stacks_parent_header.id
        payload ==
          [tenure_consensus_hash |-> m.burn_election_block,
           prev_tenure_consensus_hash |-> parent_tenure_info.parent_tenure_consensus_hash,
           burn_view_consensus_hash |-> m.burn_election_block,
           previous_tenure_end |-> parent_block_id,
           previous_tenure_blocks |-> parent_tenure_info.parent_tenure_blocks,
           cause |-> "BlockFound"]
    IN IF m.reason.kind = "BlockFound"
         THEN [tenure_change_tx |->
                 Some([nonce |-> current_miner_nonce, payload |-> payload]),
               coinbase_tx |-> Some([nonce |-> current_miner_nonce + 1])]
         ELSE [tenure_change_tx |->
                 Some([nonce |-> current_miner_nonce,
                       payload |-> extend(payload,
                                          m.reason.burn_view_consensus_hash,
                                          parent_block_id,
                                          get_nakamoto_tenure_length(hs, parent_block_id))]),
               coinbase_tx |-> None]

\* make_tenure_start_info without the early return on last_block_mined.
make_tenure_start_info_every_block(m, hs, parent_block_info) ==
    IF IsNone(parent_block_info.parent_tenure) THEN NoTenureInfo
    ELSE tenure_start_txs(m, hs, parent_block_info)

\* make_tenure_start_info treating every reason as BlockFound.
make_tenure_start_info_block_found(m, hs, parent_block_info) ==
    IF IsNone(parent_block_info.parent_tenure) THEN NoTenureInfo
    ELSE IF IsSome(m.last_block_mined) THEN NoTenureInfo
    ELSE tenure_start_txs([m EXCEPT !.reason = [kind |-> "BlockFound"]],
                          hs, parent_block_info)

make_tenure_start_info(m, hs, parent_block_info) ==
    IF IsNone(parent_block_info.parent_tenure) THEN NoTenureInfo
    ELSE IF IsSome(m.last_block_mined) THEN NoTenureInfo
    ELSE tenure_start_txs(m, hs, parent_block_info)

\* load_signer_set consulting the loader at every call.
load_signer_set_uncached(m, loaded) ==
    [res |-> loaded,
     cache |-> IF loaded.ok THEN Some(loaded.val) ELSE m.signer_set_cache,
     reloaded |-> TRUE]

\* load_signer_set returning what it loaded without keeping it.
load_signer_set_forgetful(m, loaded) ==
    IF IsSome(m.signer_set_cache)
      THEN [res |-> Ok(m.signer_set_cache[1]), cache |-> m.signer_set_cache,
            reloaded |-> FALSE]
      ELSE [res |-> loaded, cache |-> None, reloaded |-> TRUE]

\* load_signer_set: the cache if it is filled; otherwise what the reward-set
\* loader gave (`loaded`: Ok(set) or the error), caching a set.
load_signer_set(m, loaded) ==
    IF IsSome(m.signer_set_cache)
      THEN [res |-> Ok(m.signer_set_cache[1]), cache |-> m.signer_set_cache,
            reloaded |-> FALSE]
      ELSE [res |-> loaded,
            cache |-> IF loaded.ok THEN Some(loaded.val) ELSE None,
            reloaded |-> TRUE]

(* ====================== Spec: one miner thread ========================= *)
RewardSets == {"rsA", "rsB"}

\* The thread returns `e` from run_miner; `cause` is the error behind it.
Exit(e, cause) ==
    /\ pc' = "done"
    /\ result' = e
    /\ exit_cause' = cause
    /\ step_err' = cause

\* A thread that returns the very error of mine_block.
mine_block_failed_returning_cause(cause) ==
    /\ initiative' = initiative + 1
    /\ pc' = "done"
    /\ result' = cause
    /\ exit_cause' = cause
    /\ step_err' = cause

\* A thread that returns after an error of mine_block without raising the
\* initiative.
mine_block_failed_quietly(cause) ==
    /\ initiative' = initiative
    /\ pc' = "done"
    /\ result' = "MiningFailure(MinerAborted)"
    /\ exit_cause' = cause
    /\ step_err' = cause

\* run_miner, lines 352-361: any other error of mine_block raises the
\* initiative and ends the thread with MiningFailure(MinerAborted).
mine_block_failed(cause) ==
    /\ initiative' = initiative + 1
    /\ Exit("MiningFailure(MinerAborted)", cause)

\* A detection counted twice.
bump_missed_tenures_twice(n) ==
    counters' = [counters EXCEPT !.missed_tenures = @ + 2 * n]

\* globals.counters.bump_missed_tenures(), n times.
bump_missed_tenures(n) ==
    counters' = [counters EXCEPT !.missed_tenures = @ + n]

\* run_miner, lines 281-285, without a prior miner: StackerDBs::connect.
run_miner_start ==
    /\ pc = "start"
    /\ \/ /\ pc' = "assemble"
          /\ step_err' = ""
          /\ UNCHANGED <<result, exit_cause>>
       \/ Exit("MiningFailure(NetError)", "MiningFailure(NetError)")
    /\ UNCHANGED <<miner, config, cur, elapsed, counters, initiative, announced>>
    /\ UNCHANGED <<emitted, log>>
    /\ UNCHANGED <<envVars, lifeVars>>

\* The mock miner's preflight giving up on ParentNotFound as on any other
\* error.
run_miner_preflight_fatal ==
    /\ pc = "assemble"
    /\ config.mock_mining
    /\ LET burn_tip_changed == check_burn_tip_changed(miner, burn_tip)
           parent == load_block_parent_info(miner, headers, stacks_tip, burn_tip)
           r == IF burn_tip_changed.ok THEN parent.res ELSE burn_tip_changed
           missed == IF burn_tip_changed.ok THEN parent.missed ELSE 1
       IN /\ bump_missed_tenures(missed)
          /\ IF r.ok
               THEN /\ pc' = "mine"
                    /\ step_err' = ""
                    /\ UNCHANGED <<result, exit_cause>>
             ELSE Exit(r.err, r.err)
    /\ UNCHANGED <<miner, config, cur, elapsed, initiative, announced>>
    /\ UNCHANGED <<emitted, log>>
    /\ UNCHANGED <<envVars, lifeVars>>

\* run_miner, lines 302-327: the mock miner's preflight.
run_miner_preflight ==
    /\ pc = "assemble"
    /\ config.mock_mining
    /\ LET burn_tip_changed == check_burn_tip_changed(miner, burn_tip)
           parent == load_block_parent_info(miner, headers, stacks_tip, burn_tip)
           r == IF burn_tip_changed.ok THEN parent.res ELSE burn_tip_changed
           missed == IF burn_tip_changed.ok THEN parent.missed ELSE 1
       IN /\ bump_missed_tenures(missed)
          /\ IF r.ok
               THEN /\ pc' = "mine"
                    /\ step_err' = ""
                    /\ UNCHANGED <<result, exit_cause>>
             ELSE IF r.err = "ParentNotFound"
               THEN /\ pc' = "assemble"
                    /\ step_err' = r.err
                    /\ UNCHANGED <<result, exit_cause>>
             ELSE Exit(r.err, r.err)
    /\ UNCHANGED <<miner, config, cur, elapsed, initiative, announced>>
    /\ UNCHANGED <<emitted, log>>
    /\ UNCHANGED <<envVars, lifeVars>>

\* What the reward-set loader would give if load_signer_set consulted it:
\* an error, the reward set "rsA" it calculates at first or, once the thread
\* has mined a block, maybe another one.
LoadOutcomes ==
    {Ok(rs) : rs \in IF IsNone(miner.last_block_mined) THEN {"rsA"} ELSE RewardSets}
        \cup {[Err("SigningCoordinatorFailure") EXCEPT !.val = ""]}

\* mine_block, lines 988-1000: the signer set, then the first burn tip check.
mine_block_begin ==
    /\ \/ pc = "mine"
       \/ pc = "assemble" /\ ~config.mock_mining
    /\ \E loaded \in LoadOutcomes :
         LET ls == load_signer_set(miner, loaded)
             tip == check_burn_tip_changed(miner, burn_tip)
         IN /\ miner' = [miner EXCEPT !.signer_set_cache = ls.cache]
            /\ IF ~ls.res.ok
                 THEN /\ mine_block_failed(ls.res.err)
                      /\ UNCHANGED counters
               ELSE IF ~tip.ok
                 THEN /\ bump_missed_tenures(1)
                      /\ mine_block_failed(tip.err)
               ELSE /\ pc' = "parent"
                    /\ step_err' = ""
                    /\ UNCHANGED <<result, exit_cause, counters, initiative>>
    /\ UNCHANGED <<config, cur, elapsed, announced>>
    /\ UNCHANGED <<emitted, log>>
    /\ UNCHANGED <<envVars, lifeVars>>

\* mine_block going on without parent tenure info.
parent_tenure_missing_ignored(m, parent_block_info) == FALSE

\* mine_block, lines 1021-1024: the first block of the thread needs the
\* parent tenure info.
parent_tenure_missing(m, parent_block_info) ==
    IsNone(m.last_block_mined) /\ IsNone(parent_block_info.parent_tenure)

\* NakamotoBlockBuilder::build_nakamoto_block, as far as the thread relies on
\* it: the block extends the parent header it was given, in the elected
\* tenure, and carries the tenure-start transactions and `n` mempool
\* transactions.
build_nakamoto_block(id, parent_block_info, tenure_ch, tenure_start_info, t, n) ==
    [id |-> id,
     parent_block_id |-> parent_block_info.stacks_parent_header.id,
     chain_length |-> parent_block_info.stacks_parent_header.height + 1,
     consensus_hash |-> tenure_ch,
     timestamp |-> t,
     tenure_change_tx |-> tenure_start_info.tenure_change_tx,
     coinbase_tx |-> tenure_start_info.coinbase_tx,
     mempool_txs |-> n,
     parent_nonce |-> parent_block_info.coinbase_nonce,
     miner_signature |-> FALSE,
     signer_signature |-> <<>>]

\* The id of the next block built: block ids are hashes, so a new block's id
\* differs from every block the node holds.  A block dropped before it was
\* stored leaves no trace, and its id may name a later block.  Ids 1 and 2,
\* and 3 in the forked chain or as the parent a mock miner waits for, are
\* those of the chain at spawn.
FreshId ==
    LET used == DOMAIN headers \cup {b.id : b \in staging}
                    \cup {emitted[i].id : i \in 1..Len(emitted)}
                    \cup {miner.parent_tenure_id}
    IN CHOOSE i \in 3..(MaxBuilt + 3) :
           i \notin used /\ \A j \in 3..(i - 1) : j \in used

\* block.txs.is_empty()
txs_is_empty(b) ==
    IsNone(b.tenure_change_tx) /\ IsNone(b.coinbase_tx) /\ b.mempool_txs = 0

\* The timestamps the builder may stamp when get_epoch_time_secs() gave
\* `secs` at lines 1038-1047: it reads the wall clock again, and the wall
\* clock is not monotonic.
BuildTimes(secs) == {t \in {secs - 1, secs} : t >= 0}

\* get_epoch_time_secs(): the wall clock has advanced since it was last read.
ClockReads == {t \in {now, now + 1} : t <= MaxTime}

\* run_miner returning once it has broadcast a block.
after_block_returning(opened) ==
    /\ pc' = "done"
    /\ elapsed' = 0

\* run_miner, lines 428-435: the sortition DB is opened for the interim wait;
\* if that fails the outer loop starts over.
after_block(opened) ==
    /\ pc' = IF opened THEN "wait" ELSE "assemble"
    /\ elapsed' = 0

\* The mempool transactions of the block built: none beside tenure-start
\* transactions, none or one otherwise.
MempoolChoices(tenure_start_info) ==
    IF IsSome(tenure_start_info.tenure_change_tx) THEN {0} ELSE {0, 1}

\* A thread for which NoTransactionsToMine is an error of mine_block like
\* any other: it raises the initiative and returns.
no_transactions_to_mine_fatal ==
    /\ mine_block_failed("MiningFailure(NoTransactionsToMine)")
    /\ UNCHANGED <<cur, elapsed, counters>>

\* run_miner, lines 346-351 and 428-435: on NoTransactionsToMine the inner
\* loop breaks with no block, and the thread goes on to the interim wait.
no_transactions_to_mine ==
    /\ \E opened \in BOOLEAN : after_block(opened)
    /\ step_err' = "MiningFailure(NoTransactionsToMine)"
    /\ UNCHANGED <<cur, counters, result, exit_cause, initiative>>

\* mine_block, lines 1011-1086: the parent, the tenure-start transactions,
\* the time gap, the build and the miner's signature.
mine_block_build ==
    /\ pc = "parent"
    /\ FreshId <= MaxBuilt + 2 \/ burn_tip # miner.burn_block
    /\ \E secs \in ClockReads :
       LET parent == load_block_parent_info(miner, headers, stacks_tip, burn_tip)
           info == parent.res.val
           tenure_start_info == make_tenure_start_info(miner, headers, info)
           retry == \* MiningFailure(MinerAborted): sleep and try again
               /\ pc' = "assemble"
               /\ step_err' = "MiningFailure(MinerAborted)"
               /\ UNCHANGED <<cur, elapsed, counters, result, exit_cause, initiative>>
       IN /\ now' = secs
          /\ IF ~parent.res.ok
               THEN /\ bump_missed_tenures(parent.missed)
                    /\ mine_block_failed(parent.res.err)
                    /\ UNCHANGED <<cur, elapsed>>
             ELSE IF parent_tenure_missing(miner, info)
               THEN /\ mine_block_failed("ParentNotFound")
                    /\ UNCHANGED <<cur, elapsed, counters>>
             ELSE IF ~validate_timestamp_info(config, secs, info.stacks_parent_header)
               THEN retry
             ELSE \/ retry   \* the builder returned MinerAborted
                  \/ \E e \in {"SnapshotNotFoundForChainTip", "MiningFailure",
                               "MinerSignatureError"} :
                       /\ mine_block_failed(e)
                       /\ UNCHANGED <<cur, elapsed, counters>>
                  \/ \E t \in BuildTimes(secs), n \in MempoolChoices(tenure_start_info) :
                       LET block == build_nakamoto_block(
                                        FreshId, info, miner.burn_election_block,
                                        tenure_start_info, t, n)
                       IN IF txs_is_empty(block)
                            THEN no_transactions_to_mine
                            ELSE /\ cur' = Some([block EXCEPT !.miner_signature = TRUE])
                                 /\ pc' = "built"
                                 /\ step_err' = ""
                                 /\ UNCHANGED <<elapsed, counters, result, exit_cause,
                                                initiative>>
    /\ UNCHANGED <<miner, config, announced>>
    /\ UNCHANGED <<emitted, log>>
    /\ UNCHANGED <<tipVars, stacks_tip, headers, staging, lifeVars, TEST_SKIP_P2P_BROADCAST>>

\* mine_block returning the block it built without the last burn tip check.
mine_block_finish_unchecked ==
    /\ pc = "built"
    /\ LET x == cur[1]
           valid == validate_timestamp(config, headers, x)
       IN IF ~valid.ok
            THEN /\ Exit(valid.err, valid.err)
                 /\ cur' = None
                 /\ UNCHANGED <<counters, initiative>>
          ELSE IF ~valid.val
            THEN /\ pc' = "assemble"
                 /\ cur' = None
                 /\ step_err' = ""
                 /\ UNCHANGED <<counters, initiative, result, exit_cause>>
          ELSE /\ pc' = "sign"
               /\ step_err' = ""
               /\ UNCHANGED <<cur, counters, initiative, result, exit_cause>>
    /\ UNCHANGED <<miner, config, elapsed, announced>>
    /\ UNCHANGED <<emitted, log>>
    /\ UNCHANGED <<envVars, lifeVars>>

\* mine_block, line 1110, and run_miner, lines 329-338: the last burn tip
\* check, then validate_timestamp on the block mine_block returned.
mine_block_finish ==
    /\ pc = "built"
    /\ LET x == cur[1]
           tip == check_burn_tip_changed(miner, burn_tip)
           valid == validate_timestamp(config, headers, x)
       IN IF ~tip.ok
            THEN /\ bump_missed_tenures(1)
                 /\ mine_block_failed(tip.err)
                 /\ cur' = None
          ELSE IF ~valid.ok
            THEN /\ Exit(valid.err, valid.err)
                 /\ cur' = None
                 /\ UNCHANGED <<counters, initiative>>
          ELSE IF ~valid.val
            THEN \* block mined too quickly: dropped, the inner loop starts over
                 /\ pc' = "assemble"
                 /\ cur' = None
                 /\ step_err' = ""
                 /\ UNCHANGED <<counters, initiative, result, exit_cause>>
          ELSE /\ pc' = "sign"
               /\ step_err' = ""
               /\ UNCHANGED <<cur, counters, initiative, result, exit_cause>>
    /\ UNCHANGED <<miner, config, elapsed, announced>>
    /\ UNCHANGED <<emitted, log>>
    /\ UNCHANGED <<envVars, lifeVars>>

\* What SignCoordinator::run_sign_v0 returns for a block on success: the
\* signatures of a threshold of the reward set the coordinator was built with.
Signatures(block, reward_set) ==
    <<[signer_signature_hash |->
         <<block.id, block.parent_block_id, block.timestamp, block.mempool_txs>>,
       reward_set |-> reward_set]>>

\* gather_signatures running the signing coordinator in mock mining too.
gather_signatures_always_signing(m, cfg, new_block, sortdb_ok, loaded, coordinator) ==
    LET ls == load_signer_set(m, loaded)
    IN IF ~cfg.mining_key
         THEN [res |-> Err("MinerConfigurationFailed"), cache |-> m.signer_set_cache]
       ELSE IF ~sortdb_ok
         THEN [res |-> Err("SigningCoordinatorFailure"), cache |-> m.signer_set_cache]
       ELSE IF ~ls.res.ok
         THEN [res |-> Err(ls.res.err), cache |-> ls.cache]
       ELSE IF coordinator # "Ok"
         THEN [res |-> Err(coordinator), cache |-> ls.cache]
       ELSE [res |-> Ok([reward_set |-> ls.res.val,
                         signature |-> Signatures(new_block, ls.res.val)]),
             cache |-> ls.cache]

\* gather_signatures returning without running the signing coordinator, as in
\* mock mining.
gather_signatures_unsigned(m, cfg, new_block, sortdb_ok, loaded, coordinator) ==
    LET ls == load_signer_set(m, loaded)
    IN IF ~cfg.mining_key
         THEN [res |-> Err("MinerConfigurationFailed"), cache |-> m.signer_set_cache]
       ELSE IF ~sortdb_ok
         THEN [res |-> Err("SigningCoordinatorFailure"), cache |-> m.signer_set_cache]
       ELSE IF ~ls.res.ok
         THEN [res |-> Err(ls.res.err), cache |-> ls.cache]
       ELSE [res |-> Ok([reward_set |-> ls.res.val, signature |-> <<>>]),
             cache |-> ls.cache]

\* gather_signatures: the result and the signer set cache it leaves.
\* sortdb_ok, loaded, coordinator: what the sortition DB open, the reward-set
\* loader and the signing coordinator (Ok or its error) did.
gather_signatures(m, cfg, new_block, sortdb_ok, loaded, coordinator) ==
    LET ls == load_signer_set(m, loaded)
    IN IF ~cfg.mining_key
         THEN [res |-> Err("MinerConfigurationFailed"), cache |-> m.signer_set_cache]
       ELSE IF ~sortdb_ok
         THEN [res |-> Err("SigningCoordinatorFailure"), cache |-> m.signer_set_cache]
       ELSE IF ~ls.res.ok
         THEN [res |-> Err(ls.res.err), cache |-> ls.cache]
       ELSE IF cfg.mock_mining
         THEN [res |-> Ok([reward_set |-> ls.res.val, signature |-> <<>>]),
               cache |-> ls.cache]
       ELSE IF coordinator # "Ok"
         THEN [res |-> Err(coordinator), cache |-> ls.cache]
       ELSE [res |-> Ok([reward_set |-> ls.res.val,
                         signature |-> Signatures(new_block, ls.res.val)]),
             cache |-> ls.cache]

\* A thread that goes on after every error of gather_signatures.
sign_error_retried(e) == FALSE

\* A thread that returns every error of gather_signatures.
sign_error_fatal(e) == TRUE

\* run_miner, lines 371-386: the errors of gather_signatures that run_miner
\* returns; on any other (lines 387-394) the loop continues.
sign_error_returned(e) == e \in {"StacksTipChanged", "BurnchainTipChanged"}

SignOutcomes ==
    {"Ok", "StacksTipChanged", "BurnchainTipChanged", "SigningCoordinatorFailure"}

\* run_miner, lines 365-399: signature gathering and what follows from its
\* result.  On Ok the signatures are attached and the block goes on to
\* broadcast; the two tip errors end the thread; any other error drops the
\* block and starts the outer loop over.
run_miner_sign ==
    /\ pc = "sign"
    /\ \E sortdb_ok \in BOOLEAN, coordinator \in SignOutcomes, loaded \in LoadOutcomes :
         LET g == gather_signatures(miner, config, cur[1], sortdb_ok, loaded, coordinator)
             new_block == [cur[1] EXCEPT !.signer_signature = g.res.val.signature]
         IN /\ miner' = [miner EXCEPT !.signer_set_cache = g.cache]
            /\ IF g.res.ok
                 THEN /\ cur' = Some(new_block)
                      /\ pc' = "broadcast"
                      /\ step_err' = ""
                      /\ UNCHANGED <<result, exit_cause>>
               ELSE IF sign_error_returned(g.res.err)
                 THEN /\ Exit(g.res.err, g.res.err)
                      /\ cur' = None
               ELSE /\ pc' = "assemble"
                    /\ cur' = None
                    /\ step_err' = g.res.err
                    /\ UNCHANGED <<result, exit_cause>>
    /\ UNCHANGED <<config, elapsed, counters, initiative, announced>>
    /\ UNCHANGED <<emitted, log>>
    /\ UNCHANGED <<envVars, lifeVars>>

StagedIds(stg) == {b.id : b \in stg}

\* fault_injection_broadcast_fail: what it may return.  The probability is
\* capped at 100; a throw in 0..99 below it drops the block.
fault_injection_broadcast_fail(cfg) ==
    LET p == cfg.fault_injection_block_push_fail_probability
        drop_prob == IF p < 100 THEN p ELSE 100
    IN IF drop_prob > 0
         THEN {throw < drop_prob : throw \in {0, 99}}
         ELSE {FALSE}

\* fault_injection_skip_block_broadcast, the test build's: the static holds
\* Some(true).
fault_injection_skip_block_broadcast == TEST_SKIP_P2P_BROADCAST

\* broadcast_p2p without the fault_injection_skip_block_broadcast check.
broadcast_p2p_never_skipping(block, stg, skip, handle_ok, accept_ok, will_drop) ==
    LET accepted == block.id \notin StagedIds(stg)
        committed == <<[ev |-> "commit", id |-> block.id]>>
    IN IF ~handle_ok \/ ~accept_ok
         THEN [res |-> Err("AcceptFailure"), staging |-> stg, events |-> <<>>]
       ELSE IF ~accepted
         THEN [res |-> Ok(None), staging |-> stg, events |-> committed]
       ELSE IF will_drop
         THEN [res |-> Ok(None), staging |-> stg \cup {block}, events |-> committed]
       ELSE [res |-> Ok(None), staging |-> stg \cup {block},
             events |-> committed \o <<[ev |-> "p2p", id |-> block.id]>>]

\* broadcast_p2p taking a block that is stored already for a failure.
broadcast_p2p_rejecting_stored(block, stg, skip, handle_ok, accept_ok, will_drop) ==
    LET accepted == block.id \notin StagedIds(stg)
        committed == <<[ev |-> "commit", id |-> block.id]>>
    IN IF skip
         THEN [res |-> Ok(None), staging |-> stg, events |-> <<>>]
       ELSE IF ~handle_ok \/ ~accept_ok
         THEN [res |-> Err("AcceptFailure"), staging |-> stg, events |-> <<>>]
       ELSE IF ~accepted
         THEN [res |-> Err("AcceptFailure"), staging |-> stg, events |-> committed]
       ELSE IF will_drop
         THEN [res |-> Ok(None), staging |-> stg \cup {block}, events |-> committed]
       ELSE [res |-> Ok(None), staging |-> stg \cup {block},
             events |-> committed \o <<[ev |-> "p2p", id |-> block.id]>>]

\* broadcast_p2p pushing the block to the peers before the staging
\* transaction is committed.
broadcast_p2p_push_first(block, stg, skip, handle_ok, accept_ok, will_drop) ==
    LET accepted == block.id \notin StagedIds(stg)
        committed == <<[ev |-> "commit", id |-> block.id]>>
        pushed == <<[ev |-> "p2p", id |-> block.id]>>
    IN IF skip
         THEN [res |-> Ok(None), staging |-> stg, events |-> <<>>]
       ELSE IF ~handle_ok
         THEN [res |-> Err("AcceptFailure"), staging |-> stg, events |-> <<>>]
       ELSE IF ~accept_ok
         THEN [res |-> Err("AcceptFailure"), staging |-> stg, events |-> pushed]
       ELSE IF ~accepted
         THEN [res |-> Ok(None), staging |-> stg, events |-> committed]
       ELSE IF will_drop
         THEN [res |-> Ok(None), staging |-> stg \cup {block}, events |-> committed]
       ELSE [res |-> Ok(None), staging |-> stg \cup {block},
             events |-> pushed \o committed]

\* broadcast_p2p: the result, the staging store and the events it leaves.
\* skip: fault_injection_skip_block_broadcast (TEST_SKIP_P2P_BROADCAST, always
\* false outside test builds); handle_ok: index_handle_at_ch and
\* headers_conn_and_staging_tx_begin worked; accept_ok: accept_block returned
\* Ok; will_drop: fault_injection_broadcast_fail.  accept_block stores the
\* block and returns true unless the block is stored already.
broadcast_p2p(block, stg, skip, handle_ok, accept_ok, will_drop) ==
    LET accepted == block.id \notin StagedIds(stg)
        committed == <<[ev |-> "commit", id |-> block.id]>>
    IN IF skip
         THEN [res |-> Ok(None), staging |-> stg, events |-> <<>>]
       ELSE IF ~handle_ok \/ ~accept_ok
         THEN [res |-> Err("AcceptFailure"), staging |-> stg, events |-> <<>>]
       ELSE IF ~accepted
         THEN [res |-> Ok(None), staging |-> stg, events |-> committed]
       ELSE IF will_drop
         THEN [res |-> Ok(None), staging |-> stg \cup {block}, events |-> committed]
       ELSE [res |-> Ok(None), staging |-> stg \cup {block},
             events |-> committed \o <<[ev |-> "p2p", id |-> block.id]>>]

\* broadcast writing BlockPushed to the signer bus whatever broadcast_p2p
\* returned.
broadcast_pushing_unstored(cfg, block, stg, skip, handle_ok, accept_ok, will_drop, bus_ok) ==
    LET p == broadcast_p2p(block, stg, skip, handle_ok, accept_ok, will_drop)
        q == [p EXCEPT !.events = @ \o <<[ev |-> "bus", id |-> block.id]>>]
    IN IF ~cfg.mining_key
         THEN [res |-> Err("MinerConfigurationFailed"), staging |-> stg, events |-> <<>>]
       ELSE IF ~bus_ok
         THEN [p EXCEPT !.res = IF p.res.ok THEN Err("SigningCoordinatorFailure") ELSE @]
       ELSE q

\* broadcast returning Ok although the BlockPushed message was not written.
broadcast_ignoring_bus_error(cfg, block, stg, skip, handle_ok, accept_ok, will_drop, bus_ok) ==
    LET p == broadcast_p2p(block, stg, skip, handle_ok, accept_ok, will_drop)
    IN IF ~cfg.mining_key
         THEN [res |-> Err("MinerConfigurationFailed"), staging |-> stg, events |-> <<>>]
       ELSE IF ~p.res.ok
         THEN p
       ELSE IF ~bus_ok
         THEN p
       ELSE [p EXCEPT !.events = @ \o <<[ev |-> "bus", id |-> block.id]>>]

\* broadcast: broadcast_p2p, then the BlockPushed message on the signer bus
\* (bus_ok: send_miners_message returned Ok).
broadcast(cfg, block, stg, skip, handle_ok, accept_ok, will_drop, bus_ok) ==
    LET p == broadcast_p2p(block, stg, skip, handle_ok, accept_ok, will_drop)
    IN IF ~cfg.mining_key
         THEN [res |-> Err("MinerConfigurationFailed"), staging |-> stg, events |-> <<>>]
       ELSE IF ~p.res.ok
         THEN p
       ELSE IF ~bus_ok
         THEN [p EXCEPT !.res = Err("SigningCoordinatorFailure")]
       ELSE [p EXCEPT !.events = @ \o <<[ev |-> "bus", id |-> block.id]>>]

\* What broadcast may do with the block in hand: the database handles, the
\* staging of the block, the fault injection and the StackerDB write.
BroadcastOutcomes ==
    {broadcast(config, cur[1], staging, fault_injection_skip_block_broadcast,
               handle_ok, accept_ok, will_drop, bus_ok) :
        handle_ok \in BOOLEAN, accept_ok \in BOOLEAN,
        will_drop \in fault_injection_broadcast_fail(config), bus_ok \in BOOLEAN}

\* Counters whose mined_blocks is left as it was.
mined_blocks_kept(c) == c

\* globals.counters.bump_naka_mined_blocks(), run_miner line 415.
bump_naka_mined_blocks(c) == [c EXCEPT !.mined_blocks = @ + 1]

\* A thread that leaves last_block_mined as it was after a broadcast.
last_block_mined_kept(m, new_block) == m

\* A thread that, having mined a block, takes it as its parent tenure.
set_last_block_mined_reparenting(m, new_block) ==
    [m EXCEPT !.last_block_mined = Some(new_block), !.parent_tenure_id = new_block.id]

\* run_miner, line 425: self.last_block_mined = Some(new_block).
set_last_block_mined(m, new_block) ==
    [m EXCEPT !.last_block_mined = Some(new_block)]

\* run_miner, lines 400-435: broadcast; on an error the outer loop starts
\* over; on success the counters are bumped, the chains coordinator is woken
\* and the block becomes last_block_mined.
run_miner_broadcast ==
    /\ pc = "broadcast"
    /\ \E b \in BroadcastOutcomes, opened \in BOOLEAN :
         LET new_block == cur[1]
         IN /\ staging' = b.staging
            /\ log' = b.events
            /\ cur' = None
            /\ step_err' = b.res.err
            /\ IF ~b.res.ok
                 THEN /\ pc' = "assemble"
                      /\ ~opened
                      /\ UNCHANGED <<miner, counters, announced, emitted, elapsed>>
               ELSE /\ counters' =
                         [bump_naka_mined_blocks(counters) EXCEPT
                            !.mined_tenures =
                               IF ~IsNone(miner.last_block_mined) THEN @ + 1 ELSE @]
                    /\ announced' = announced + 1
                    /\ miner' = set_last_block_mined(miner, new_block)
                    /\ emitted' = Append(emitted, new_block)
                    /\ after_block(opened)
    /\ UNCHANGED <<config, result, initiative>>
    /\ UNCHANGED exit_cause
    /\ UNCHANGED <<tipVars, stacks_tip, headers, now, lifeVars, TEST_SKIP_P2P_BROADCAST>>

\* run_miner, lines 437-443: one turn of the interim wait: sleep
\* ABORT_TRY_AGAIN_MS (or longer), then check the burn tip.
run_miner_wait_poll ==
    /\ pc = "wait"
    /\ elapsed < config.wait_on_interim_blocks
    /\ \E slept \in {ABORT_TRY_AGAIN_MS, config.wait_on_interim_blocks - elapsed} :
         /\ slept >= ABORT_TRY_AGAIN_MS
         /\ elapsed' = elapsed + slept
    /\ IF ~check_burn_tip_changed(miner, burn_tip).ok
         THEN /\ bump_missed_tenures(1)
              /\ Exit("BurnchainTipChanged", "BurnchainTipChanged")
         ELSE /\ step_err' = ""
              /\ UNCHANGED <<pc, result, exit_cause, counters>>
    /\ UNCHANGED <<miner, config, cur, initiative, announced>>
    /\ UNCHANGED <<emitted, log>>
    /\ UNCHANGED <<envVars, lifeVars>>

\* run_miner, line 438: the wait is over, the outer loop starts over.
run_miner_wait_done ==
    /\ pc = "wait"
    /\ ~(elapsed < config.wait_on_interim_blocks)
    /\ pc' = "assemble"
    /\ step_err' = ""
    /\ UNCHANGED <<miner, config, result, cur, elapsed, counters, initiative, announced>>
    /\ UNCHANGED <<emitted, log, exit_cause, envVars, lifeVars>>

(* ========================= Spec: environment =========================== *)
Running == pc # "done"

\* A new sortition: the canonical burn tip moves off the miner's burn_block.
burn_tip_changes ==
    /\ Running
    /\ burn_tip = miner.burn_block
    /\ burn_tip' = "chNew"
    /\ flip_in_wait' = (pc = "wait")
    /\ UNCHANGED <<stacks_tip, headers, staging, now, TEST_SKIP_P2P_BROADCAST>>
    /\ UNCHANGED <<minerVars, histVars, lifeVars>>

\* The chains coordinator processes a staged block whose parent is processed;
\* a block higher than the canonical Stacks tip becomes the tip.  The miner
\* thread sees the coordinator's progress only where it reads the canonical
\* tip, at the head of an assembly, so the steps are interleaved there.
process_block ==
    /\ pc \in {"assemble", "parent"}
    /\ \E b \in staging :
         /\ b.id \notin DOMAIN headers
         /\ b.parent_block_id \in DOMAIN headers
         /\ headers' = [i \in DOMAIN headers \cup {b.id} |->
                          IF i = b.id THEN HeaderOf(b) ELSE headers[i]]
         /\ stacks_tip' = IF b.chain_length > headers[stacks_tip].height
                            THEN b.id ELSE stacks_tip
    /\ UNCHANGED <<tipVars, staging, now, TEST_SKIP_P2P_BROADCAST>>
    /\ UNCHANGED <<minerVars, histVars, lifeVars>>

\* The chains coordinator processes the tenure-start block the winner of the
\* sortition committed to, which a mock miner may not have processed when it
\* is spawned (lines 298-300); the block becomes the canonical Stacks tip.
process_parent_tenure ==
    /\ pc \in {"assemble", "parent"}
    /\ miner.parent_tenure_id \notin DOMAIN headers
    /\ LET id == miner.parent_tenure_id
           h == Header(id, stacks_tip, headers[stacks_tip].height + 1, "chQ",
                       TRUE, 0, 0, 0)
       IN /\ headers' = [i \in DOMAIN headers \cup {id} |->
                           IF i = id THEN h ELSE headers[i]]
          /\ stacks_tip' = id
    /\ UNCHANGED <<tipVars, staging, now, TEST_SKIP_P2P_BROADCAST>>
    /\ UNCHANGED <<minerVars, histVars, lifeVars>>

\* The signers push the block they signed to the nodes themselves: the
\* relayer stores the miner's own block before the miner thread does.
signer_fanout ==
    /\ pc = "broadcast"
    /\ ~config.mock_mining
    /\ cur[1].id \notin StagedIds(staging)
    /\ staging' = staging \cup {cur[1]}
    /\ UNCHANGED <<tipVars, stacks_tip, headers, now, TEST_SKIP_P2P_BROADCAST>>
    /\ UNCHANGED <<minerVars, histVars, lifeVars>>

(* ========================== initial states ============================= *)
\* The chain at spawn: the parent tenure "chP", either two Nakamoto blocks
\* or one epoch-2 block, the last one the canonical Stacks tip.
NakamotoChain ==
    [i \in {1, 2} |-> Header(i, i - 1, i, "chP", TRUE, 0, 0, 0)]
Epoch2Chain ==
    [i \in {1} |-> Header(i, i - 1, i, "chP", FALSE, 0, 1, 0)]

\* A chain that forked before the spawn: on block 1 of tenure "chO" stand
\* block 2, the start of the tenure "chP" the miner's block-commit names as
\* its parent tenure, and block 3 of the rival tenure "chQ", which is the
\* canonical Stacks tip.
ForkedChain ==
    [i \in {1, 2, 3} |->
        IF i = 1 THEN Header(1, 0, 1, "chO", TRUE, 0, 0, 0)
        ELSE Header(i, 1, 2, IF i = 2 THEN "chP" ELSE "chQ", TRUE, 0, 0, 0)]

\* BlockMinerThread::new: last_block_mined and signer_set_cache start None.
\* A BlockFound miner was elected in a new tenure "chE" on top of the parent
\* tenure that starts at block 1; an Extended miner continues its own tenure
\* "chP" from the canonical tip into the burn view "chView".
new(burn_election_block, burn_block, parent_tenure_id, reason) ==
    [last_block_mined |-> None,
     burn_election_block |-> burn_election_block,
     burn_block |-> burn_block,
     parent_tenure_id |-> parent_tenure_id,
     reason |-> reason,
     signer_set_cache |-> None]

BlockFound == [kind |-> "BlockFound", burn_view_consensus_hash |-> ""]
Extended(h) == [kind |-> "Extended", burn_view_consensus_hash |-> h]

\* The configurations: the usual one, mock mining, P2P pushes dropped half
\* of the time, no mining key, and neither a minimum time between blocks nor
\* an interim wait.
DefaultConfig ==
    [mock_mining |-> FALSE, mining_key |-> TRUE,
     min_time_between_blocks_ms |-> 1000,
     wait_on_interim_blocks |-> ABORT_TRY_AGAIN_MS,
     fault_injection_block_push_fail_probability |-> 0]

MockMining == [DefaultConfig EXCEPT !.mock_mining = TRUE]
DropPushes == [DefaultConfig EXCEPT !.fault_injection_block_push_fail_probability = 50]
Configs ==
    {DefaultConfig,
     [DefaultConfig EXCEPT !.mining_key = FALSE],
     [DefaultConfig EXCEPT !.min_time_between_blocks_ms = 0,
                           !.wait_on_interim_blocks = 0]}

Idle ==
    /\ pc = "start"
    /\ result = ""
    /\ cur = None
    /\ elapsed = 0
    /\ counters = [mined_blocks |-> 0, mined_tenures |-> 0, missed_tenures |-> 0]
    /\ initiative = 0
    /\ announced = 0
    /\ staging = {}
    /\ emitted = <<>>
    /\ log = <<>>
    /\ exit_cause = ""
    /\ step_err = ""
    /\ flip_in_wait = FALSE
    /\ now = 0

Init ==
    /\ LifeInit
    /\ Idle
    /\ \/ /\ config \in Configs
          /\ headers = NakamotoChain
          /\ miner = new("chE", "chE", 1, BlockFound)
          /\ TEST_SKIP_P2P_BROADCAST = FALSE
       \/ /\ headers = Epoch2Chain
          /\ miner = new("chE", "chE", 1, BlockFound)
          /\ \/ config = DefaultConfig /\ TEST_SKIP_P2P_BROADCAST \in BOOLEAN
             \/ config = DropPushes /\ TEST_SKIP_P2P_BROADCAST = FALSE
       \/ /\ config \in {DefaultConfig, MockMining}
          /\ headers = NakamotoChain
          /\ miner = new("chP", "chView", 2, Extended("chView"))
          /\ TEST_SKIP_P2P_BROADCAST = FALSE
       \/ /\ config = DefaultConfig
          /\ headers = ForkedChain
          /\ miner = new("chE", "chE", 2, BlockFound)
          /\ TEST_SKIP_P2P_BROADCAST = FALSE
          /\ stacks_tip = 3
       \/ /\ config = MockMining
          /\ headers = NakamotoChain
          /\ miner = new("chE", "chE", 3, BlockFound)
          /\ TEST_SKIP_P2P_BROADCAST = FALSE
    /\ stacks_tip \in DOMAIN headers
    /\ \A i \in DOMAIN headers : headers[i].height <= headers[stacks_tip].height
    /\ burn_tip = miner.burn_block

Next ==
    \/ run_miner_start
    \/ run_miner_preflight
    \/ mine_block_begin
    \/ mine_block_build
    \/ mine_block_finish
    \/ run_miner_sign
    \/ run_miner_broadcast
    \/ run_miner_wait_poll
    \/ run_miner_wait_done
    \/ burn_tip_changes
    \/ process_block
    \/ process_parent_tenure
    \/ signer_fanout

Spec == Init /\ [][Next]_vars

\* SpecLife: the miner thread of Spec stays as constructed.
InitLife ==
    /\ LifeInit
    /\ Idle
    /\ config = [DefaultConfig EXCEPT !.min_time_between_blocks_ms = 0,
                                      !.wait_on_interim_blocks = 0]
    /\ TEST_SKIP_P2P_BROADCAST = FALSE
    /\ headers = NakamotoChain
    /\ miner = new("chE", "chE", 1, BlockFound)
    /\ stacks_tip = 2
    /\ burn_tip = "chE"

NextLife ==
    \/ \E w \in Workers : spawn(w)
    \/ \E w \in Workers : run_miner_entry(w)
    \/ \E w \in Workers : stop_miner_join(w)
    \/ \E w \in Workers : run_miner_connect(w)
    \/ \E w \in Workers : run_miner_loop_ends(w)

SpecLife == InitLife /\ [][NextLife]_vars

(* ============================== properties ============================= *)
InLoop(w) == wpc[w] = "loop"
PastStop(w) == wpc[w] \in {"connect", "loop"}

\* C1: a thread handed the JoinHandle of the previous one is past stop_miner
\* (at StackerDBs::connect or in the mining loop) only when the previous
\* thread has terminated and stop_miner has returned Ok; so no two threads
\* are in the mining loop together.
C1_OneWorkerMining ==
    /\ \A w \in Workers :
         (w > 1 /\ PastStop(w)) => (Terminated(w - 1) /\ wstop[w] = "Ok")
    /\ \A v, w \in Workers : (InLoop(v) /\ InLoop(w)) => v = w

\* The second thread mines after it stopped the first, which had been mining.
C1_Witness ==
    /\ InLoop(2)
    /\ wstop[2] = "Ok"
    /\ wres[1] \in LoopErrors

\* C2: whenever stop_miner returns, with Ok or with an error, the
\* miner-blocked gate is clear.
C2_GateClearOnReturn ==
    [][\A w \in Workers :
         (wstop[w] = "" /\ wstop'[w] # "") => ~miner_blocked']_vars

\* C3: stop_miner returns Ok whenever the prior thread ended with a result
\* (the result is not passed on, and the new thread goes on to connect and
\* to its loop); it returns MiningFailure(MinerAborted) exactly when the
\* join failed, which is when the prior thread panicked.
C3_PriorErrorNotPropagated ==
    \A w \in Workers :
        (w > 1 /\ wstop[w] # "") =>
            /\ Terminated(w - 1)
            /\ wpc[w - 1] = "exited" => wstop[w] = "Ok"
            /\ wstop[w] = "Ok" => wpc[w] # "joining"
            /\ wstop[w] = "MiningFailure(MinerAborted)" <=> wpc[w - 1] = "panicked"

\* The prior thread ended with BurnchainTipChanged, stop_miner returned Ok
\* and the new thread is in its loop.
C3_Witness ==
    /\ wres[1] = "BurnchainTipChanged"
    /\ wstop[2] = "Ok"
    /\ InLoop(2)

(* ------------------------- Spec: the blocks --------------------------- *)
Emitted == {emitted[i] : i \in 1..Len(emitted)}

\* The blocks past validate_timestamp: the one in signature gathering or
\* broadcast, the stored ones and the ones recorded as last_block_mined.
PastValidation ==
    (IF pc \in {"sign", "broadcast"} THEN {cur[1]} ELSE {}) \cup staging \cup Emitted

\* The signed blocks: the one in broadcast, the stored and the recorded ones.
PastSigning ==
    (IF pc = "broadcast" THEN {cur[1]} ELSE {}) \cup staging \cup Emitted

\* C4: of the blocks a BlockFound thread emitted, the first carries a
\* tenure change of cause BlockFound and a coinbase, and no later block
\* carries a tenure change or a coinbase.
C4_BlockFoundFirstBlockOnly ==
    miner.reason.kind = "BlockFound" =>
        \A i \in 1..Len(emitted) :
            LET b == emitted[i]
            IN IF i = 1
                 THEN /\ IsSome(b.tenure_change_tx)
                      /\ b.tenure_change_tx[1].payload.cause = "BlockFound"
                      /\ IsSome(b.coinbase_tx)
                 ELSE IsNone(b.tenure_change_tx) /\ IsNone(b.coinbase_tx)

\* A BlockFound thread has emitted two blocks.
C4_Witness ==
    /\ miner.reason.kind = "BlockFound"
    /\ Len(emitted) = 2

\* C5: of the blocks an Extended{H} thread emitted, the first carries a
\* tenure change of cause Extended whose burn view is H, no later block
\* carries a tenure change, and no block carries a coinbase.
C5_ExtendedFirstBlockOnly ==
    miner.reason.kind = "Extended" =>
        \A i \in 1..Len(emitted) :
            LET b == emitted[i]
            IN /\ IsNone(b.coinbase_tx)
               /\ IF i = 1
                    THEN /\ IsSome(b.tenure_change_tx)
                         /\ b.tenure_change_tx[1].payload.cause = "Extended"
                         /\ b.tenure_change_tx[1].payload.burn_view_consensus_hash
                                = miner.reason.burn_view_consensus_hash
                    ELSE IsNone(b.tenure_change_tx)

\* An Extended thread has emitted two blocks; its burn view is not the
\* consensus hash of its election block.
C5_Witness ==
    /\ miner.reason.kind = "Extended"
    /\ miner.reason.burn_view_consensus_hash # miner.burn_election_block
    /\ Len(emitted) = 2

\* C6, for a mock-mining thread that extends its tenure: of two blocks
\* emitted one after the other, the second has the first as its parent and
\* is one higher, whatever the canonical Stacks tip was when the second was
\* assembled.
C6_ChainLinkage ==
    (miner.reason.kind = "Extended" /\ config.mock_mining) =>
        \A i \in 1..(Len(emitted) - 1) :
            /\ emitted[i + 1].parent_block_id = emitted[i].id
            /\ emitted[i + 1].chain_length = emitted[i].chain_length + 1

Max(a, b) == IF a >= b THEN a ELSE b

\* The timestamp validate_timestamp_info compares with: the header's own for
\* a Nakamoto header, the burn header's otherwise.
ParentTimestamp(b) ==
    LET h == headers[b.parent_block_id]
    IN IF h.naka THEN h.ts ELSE h.burn_ts

\* C7: every block in signature gathering or broadcast, stored or recorded
\* as last_block_mined is at least min_time_between_blocks_ms after its
\* parent (the header of its parent_block_id), the difference of the
\* timestamps being taken as the code takes it, 0 when negative.
C7_TimestampGap ==
    \A b \in PastValidation :
        /\ b.parent_block_id \in DOMAIN headers
        /\ Max(b.timestamp - ParentTimestamp(b), 0) * 1000
              >= config.min_time_between_blocks_ms

\* A second block is in signature gathering, a second after its parent,
\* with a minimum of a second.
C7_Witness ==
    /\ pc = "sign"
    /\ Len(emitted) = 1
    /\ config.min_time_between_blocks_ms = 1000
    /\ cur[1].timestamp = ParentTimestamp(cur[1]) + 1

\* C8: outside mock mining, every block in broadcast, stored or recorded
\* carries the signatures the signing coordinator returned for that very
\* block, the coordinator having been built from the cached reward set; so
\* none carries an empty vector or that of another round.
C8_SignedBeforeBroadcast ==
    ~config.mock_mining =>
        \A b \in PastSigning :
            /\ IsSome(miner.signer_set_cache)
            /\ b.signer_signature = Signatures(b, miner.signer_set_cache[1])
            /\ b.signer_signature # <<>>

\* Outside mock mining, a signed block was stored and pushed by broadcast
\* and recorded as last_block_mined.
C8_Witness ==
    /\ ~config.mock_mining
    /\ Len(emitted) = 1
    /\ emitted[1] \in staging
    /\ \E i \in 1..Len(log) : log[i] = [ev |-> "p2p", id |-> emitted[1].id]
    /\ miner.last_block_mined = Some(emitted[1])

\* C9: signer_set_cache starts empty; once filled it never changes, so every
\* later load_signer_set gives the same reward set; a failed load leaves it
\* empty.
C9_CacheStable ==
    /\ IsNone(miner.signer_set_cache)
    /\ [][/\ (IsSome(miner.signer_set_cache)
                => miner'.signer_set_cache = miner.signer_set_cache)
           /\ (exit_cause' = "SigningCoordinatorFailure"
                => IsNone(miner'.signer_set_cache))]_vars

\* The cache is filled and the thread, two blocks emitted, has called
\* load_signer_set again and again.
C9_Witness ==
    /\ IsSome(miner.signer_set_cache)
    /\ Len(emitted) = 2

\* A step of the miner thread.
ThreadStep == minerVars' # minerVars

\* C10 as stated, for a thread that has polled already: if the burn tip
\* changes during the interim wait, the next step of the thread is the exit
\* with BurnchainTipChanged.
C10_ExitAtNextPoll ==
    [][(pc = "wait" /\ elapsed > 0 /\ flip_in_wait /\ ThreadStep)
          => (pc' = "done" /\ result' = "BurnchainTipChanged")]_vars

\* C10, amended: a poll of the interim wait that finds the burn tip changed
\* ends the thread with BurnchainTipChanged, no block assembled, signed or
\* recorded; a change after the last poll is not seen by the wait, which
\* the thread leaves for the next assembly.
C10_ExitAtPoll ==
    [][(pc = "wait" /\ burn_tip # miner.burn_block /\ ThreadStep)
          => IF elapsed < config.wait_on_interim_blocks
               THEN /\ pc' = "done"
                    /\ result' = "BurnchainTipChanged"
                    /\ cur' = None
                    /\ emitted' = emitted
               ELSE pc' = "assemble" /\ result' = ""]_vars

\* The burn tip changed during the interim wait of a thread that is not
\* mock mining, and the thread ended with BurnchainTipChanged.
C10_Witness ==
    /\ flip_in_wait
    /\ ~config.mock_mining
    /\ pc = "done"
    /\ result = "BurnchainTipChanged"
    /\ exit_cause = "BurnchainTipChanged"

(* ------------------------------ C11 ------------------------------------ *)
\* C11: last_block_mined is None until a broadcast has returned Ok; from then
\* on it is Some(b), b the block whose broadcast returned Ok last.  It is
\* hence never None again and never a block whose broadcast failed.
C11_LastBlockMined ==
    miner.last_block_mined =
        IF emitted = <<>> THEN None ELSE Some(emitted[Len(emitted)])

\* A block was broadcast, and the broadcast of the next one failed after its
\* commit: last_block_mined is still the first block.
C11_Witness ==
    /\ Len(emitted) = 1
    /\ miner.last_block_mined = Some(emitted[1])
    /\ pc = "assemble"
    /\ log # <<>>
    /\ \A i \in 1..Len(log) : log[i].id # emitted[1].id

(* ------------------------------ C12 ------------------------------------ *)
\* The event at place i of the last broadcast comes after the commit of the
\* staging transaction that stored the same block.
AfterCommit(i) ==
    \E j \in 1..(i - 1) : log[j] = [ev |-> "commit", id |-> log[i].id]

\* C12, as stated: in a broadcast, the P2P push and the BlockPushed message
\* on the signer bus each come after the commit of the staging transaction
\* for the same block, and neither is made without that commit.
C12_CommitBeforePushes ==
    \A i \in 1..Len(log) : log[i].ev \in {"p2p", "bus"} => AfterCommit(i)

\* C12, amended: the P2P push always comes after the commit; the BlockPushed
\* message comes after the commit unless TEST_SKIP_P2P_BROADCAST is set, and
\* then it is sent with no commit and no P2P push.
C12_CommitBeforePushesUnlessSkipped ==
    /\ \A i \in 1..Len(log) : log[i].ev = "p2p" => AfterCommit(i)
    /\ \A i \in 1..Len(log) :
          log[i].ev = "bus" =>
             IF TEST_SKIP_P2P_BROADCAST THEN log = <<log[i]>> ELSE AfterCommit(i)

\* A broadcast that committed, pushed to the peers and wrote to the signer
\* bus, in that order.
C12_Witness ==
    /\ Len(log) = 3
    /\ <<log[1].ev, log[2].ev, log[3].ev>> = <<"commit", "p2p", "bus">>
    /\ log[1].id = log[2].id /\ log[2].id = log[3].id
    /\ log[1].id \in StagedIds(staging)

(* --------------------------- C13, C14 ---------------------------------- *)
\* The step neither stores nor pushes a block, bumps no mined counter and
\* leaves last_block_mined as it was.
NothingBroadcast ==
    /\ staging' = staging
    /\ log' = log
    /\ emitted' = emitted
    /\ announced' = announced
    /\ counters'.mined_blocks = counters.mined_blocks
    /\ counters'.mined_tenures = counters.mined_tenures
    /\ miner'.last_block_mined = miner.last_block_mined

TipErrors == {"StacksTipChanged", "BurnchainTipChanged"}

\* C13: when gather_signatures fails with StacksTipChanged or
\* BurnchainTipChanged, run_miner returns that error in the same step; the
\* block in flight is neither stored nor pushed, the mined counters are not
\* bumped and last_block_mined is unchanged.
C13_TipErrorsExit ==
    [][(pc = "sign" /\ step_err' \in TipErrors)
          => /\ pc' = "done"
             /\ result' = step_err'
             /\ cur' = None
             /\ NothingBroadcast]_vars

\* The thread has returned StacksTipChanged from the signing of its second
\* block.
C13_Witness ==
    /\ pc = "done"
    /\ result = "StacksTipChanged"
    /\ step_err = "StacksTipChanged"
    /\ Len(emitted) = 1
    /\ miner.last_block_mined = Some(emitted[1])
    /\ counters.mined_blocks = 1

\* C14: when gather_signatures fails with any other error, the thread does
\* not return: it drops the block in flight and starts the next assembly with
\* last_block_mined, signer_set_cache, burn_block, reason and the mined
\* counters as they were, and nothing is stored or pushed.
C14_OtherErrorsRetry ==
    [][(pc = "sign" /\ step_err' \notin TipErrors \cup {""})
          => /\ pc' = "assemble"
             /\ result' = ""
             /\ cur' = None
             /\ miner' = miner
             /\ NothingBroadcast]_vars

\* The signing of the second block has failed with
\* SigningCoordinatorFailure: the events of the last broadcast are still those
\* of the first block, and the thread is back at the assembly.
C14_Witness ==
    /\ pc = "assemble"
    /\ step_err = "SigningCoordinatorFailure"
    /\ result = ""
    /\ Len(emitted) = 1
    /\ log # <<>>
    /\ \A i \in 1..Len(log) : log[i].id = emitted[1].id
    /\ miner.last_block_mined = Some(emitted[1])

(* ------------------------------ C15 ------------------------------------ *)
\* mine_block has just returned MiningFailure(NoTransactionsToMine).
NoTransactionsToMine ==
    pc = "parent" /\ step_err' = "MiningFailure(NoTransactionsToMine)"

\* C15, as stated: when mine_block returns NoTransactionsToMine the thread
\* goes to the interim wait without signing or broadcasting; nothing is
\* stored or pushed, the mined counters and last_block_mined are unchanged
\* and the thread does not return.
C15_NoTransactionsWaits ==
    [][NoTransactionsToMine
          => /\ pc' = "wait"
             /\ result' = ""
             /\ NothingBroadcast]_vars

\* C15, amended: the thread goes to the interim wait, or to the next
\* assembly when the sortition DB cannot be opened for the wait.
C15_NoTransactionsWaitsOrRetries ==
    [][NoTransactionsToMine
          => /\ pc' \in {"wait", "assemble"}
             /\ elapsed' = 0
             /\ cur' = None
             /\ result' = ""
             /\ NothingBroadcast]_vars

\* After its first block the thread had no transaction to mine and is in
\* the interim wait, its counters and last_block_mined as they were.
C15_Witness ==
    /\ pc = "wait"
    /\ step_err = "MiningFailure(NoTransactionsToMine)"
    /\ cur = None
    /\ Len(emitted) = 1
    /\ miner.last_block_mined = Some(emitted[1])
    /\ counters.mined_blocks = 1

(* ------------------------------ C16 ------------------------------------ *)
\* C16: mined_blocks goes up by one with each broadcast that returns Ok and
\* on no other path: it counts the blocks whose broadcast returned Ok, which
\* are the blocks recorded as last_block_mined.
C16_MinedBlocksCountsBroadcasts ==
    counters.mined_blocks = Len(emitted)

\* One block was broadcast and counted; the broadcast of the next one has
\* failed and the thread is back at the assembly.
C16_Witness ==
    /\ counters.mined_blocks = 1
    /\ Len(emitted) = 1
    /\ pc = "assemble"
    /\ step_err = "AcceptFailure"

(* ------------------------------ C17 ------------------------------------ *)
\* C17: mined_tenures goes up with the first block the thread emits (the
\* broadcast made while last_block_mined is None) and with no later block: a
\* thread that has emitted one block or more has bumped it exactly once.
C17_MinedTenuresOncePerTenure ==
    counters.mined_tenures = IF emitted = <<>> THEN 0 ELSE 1

(* --------------------------- C18, C19 ---------------------------------- *)
\* The thread's step is a broadcast in which accept_block returned false: the
\* block in flight was stored already, and the staging transaction was
\* committed.
NotAccepted ==
    /\ pc = "broadcast"
    /\ pc' # "broadcast"
    /\ cur[1].id \in StagedIds(staging)
    /\ \E i \in 1..Len(log') : log'[i] = [ev |-> "commit", id |-> cur[1].id]

\* The event ev of the block in flight is among those of the step.
Pushed(ev) ==
    \E i \in 1..Len(log') : log'[i] = [ev |-> ev, id |-> cur[1].id]

C19_NotAcceptedStillPushed ==
    [][(NotAccepted /\ config.fault_injection_block_push_fail_probability = 0)
          => Pushed("p2p")]_vars

(* ------------------------------ C20 ------------------------------------ *)
\* The thread's step is a mine_block that found its parent and read a time
\* at which the parent is less than min_time_between_blocks_ms old.
TooSoonToMine ==
    /\ pc = "parent"
    /\ pc' # "parent"
    /\ LET parent == load_block_parent_info(miner, headers, stacks_tip, burn_tip)
       IN /\ parent.res.ok
          /\ ~(IsNone(miner.last_block_mined) /\ IsNone(parent.res.val.parent_tenure))
          /\ ~validate_timestamp_info(config, now', parent.res.val.stacks_parent_header)

\* At the time t, min_time_between_blocks_ms have passed since the block of
\* header h.
GapReached(t, h) ==
    t * 1000 >= (IF h.naka THEN h.ts ELSE h.burn_ts) * 1000
                    + config.min_time_between_blocks_ms

InMineBlock ==
    \/ pc \in {"mine", "parent"}
    \/ pc = "assemble" /\ ~config.mock_mining

\* The thread's step is a mine_block that failed with an error other than
\* MinerAborted and NoTransactionsToMine.  In the step that ends mine_block
\* the only such error is that of its last burn tip check.
MineBlockFailed ==
    /\ ThreadStep
    /\ step_err' \notin {"", "MiningFailure(MinerAborted)",
                         "MiningFailure(NoTransactionsToMine)"}
    /\ \/ InMineBlock
       \/ pc = "built" /\ step_err' = "BurnchainTipChanged"

\* C21: when mine_block fails with an error other than MinerAborted and
\* NoTransactionsToMine, the thread raises the initiative once and returns
\* MiningFailure(MinerAborted) in the same step: it does not retry, and it
\* signs and broadcasts nothing.  The initiative is raised nowhere else.
C21_MineBlockErrorsFatal ==
    /\ [](initiative = IF result = "MiningFailure(MinerAborted)" THEN 1 ELSE 0)
    /\ [][MineBlockFailed
            => /\ initiative' = initiative + 1
               /\ pc' = "done"
               /\ result' = "MiningFailure(MinerAborted)"
               /\ exit_cause' = step_err'
               /\ NothingBroadcast]_vars

\* After its first block the thread's mine_block failed with
\* MinerSignatureError: the thread has returned MiningFailure(MinerAborted)
\* and raised the initiative once.
C21_Witness ==
    /\ pc = "done"
    /\ exit_cause = "MinerSignatureError"
    /\ result = "MiningFailure(MinerAborted)"
    /\ initiative = 1
    /\ Len(emitted) = 1
    /\ cur = None

(* ------------------------------ C22 ------------------------------------ *)
\* C22: a missing mining key is fatal: once gather_signatures or broadcast
\* has failed with MinerConfigurationFailed the thread has returned, it is
\* not back at the block assembly.
C22_MissingKeyFatal ==
    step_err = "MinerConfigurationFailed" => pc = "done"

(* ------------------------------ C23 ------------------------------------ *)
\* C23: when broadcast fails with AcceptFailure the thread does not return:
\* nothing was stored, no event of the broadcast is a P2P push or a
\* BlockPushed message, last_block_mined and the counters are as they were,
\* the chains coordinator is not woken, and the thread is back at the block
\* assembly.
C23_AcceptFailureRetries ==
    [][(pc = "broadcast" /\ step_err' = "AcceptFailure")
          => /\ pc' = "assemble"
             /\ result' = ""
             /\ cur' = None
             /\ \A i \in 1..Len(log') : log'[i].ev \notin {"p2p", "bus"}
             /\ staging' = staging
             /\ miner' = miner
             /\ counters' = counters
             /\ announced' = announced
             /\ emitted' = emitted]_vars

\* The broadcast of the thread's second block failed with AcceptFailure: the
\* block is nowhere, and the coordinator was woken once, for the first block.
C23_Witness ==
    /\ step_err = "AcceptFailure"
    /\ pc = "assemble"
    /\ log = <<>>
    /\ announced = 1
    /\ Len(emitted) = 1
    /\ miner.last_block_mined = Some(emitted[1])
    /\ StagedIds(staging) \subseteq {emitted[1].id}

(* ------------------------------ C24 ------------------------------------ *)
\* The thread's step made a burn tip check of its own that found the
\* canonical burn tip moved off burn_block.
BurnTipCheckFailed ==
    /\ ThreadStep
    /\ pc # "sign"
    /\ step_err' = "BurnchainTipChanged"

\* The thread's step starts with a burn tip check: the preflight of the mock
\* miner, the end of mine_block, a turn of the interim wait.
AtBurnTipCheck ==
    \/ pc = "assemble" /\ config.mock_mining
    \/ pc = "built"
    \/ pc = "wait" /\ elapsed < config.wait_on_interim_blocks

\* C24, as stated: whenever a burn tip check of the thread finds the
\* canonical burn tip different from burn_block, the thread returns, and what
\* it returns is BurnchainTipChanged.
C24_TipChangeReturned ==
    [][BurnTipCheckFailed
          => pc' = "done" /\ result' = "BurnchainTipChanged"]_vars

\* C24, amended: the thread returns in the step of the check.  It returns
\* BurnchainTipChanged from the mock miner's preflight and from the interim
\* wait, and MiningFailure(MinerAborted) from the checks made in mine_block.
\* A check made while the tip is off burn_block does find it.
C24_TipChangeEndsThread ==
    [][/\ BurnTipCheckFailed
          => /\ pc' = "done"
             /\ burn_tip # miner.burn_block
             /\ result' = IF InMineBlock \/ pc = "built"
                             THEN "MiningFailure(MinerAborted)"
                             ELSE "BurnchainTipChanged"
       /\ (ThreadStep /\ AtBurnTipCheck /\ burn_tip # miner.burn_block)
          => step_err' = "BurnchainTipChanged"]_vars

\* The last check of a mine_block found the burn tip changed, after a first
\* block: the thread has returned MiningFailure(MinerAborted).
C24_Witness ==
    /\ pc = "done"
    /\ step_err = "BurnchainTipChanged"
    /\ result = "MiningFailure(MinerAborted)"
    /\ burn_tip # miner.burn_block
    /\ counters.missed_tenures = 1
    /\ Len(emitted) = 1

(* ------------------------------ C25 ------------------------------------ *)
\* C25: in mock mining gather_signatures short-circuits.  For the block about
\* to be signed, whatever the signing coordinator would do, it returns what it
\* returns when the coordinator is left out of account, and when it returns
\* Ok that is the cached reward set with no signature; the block that goes on
\* to broadcast carries no signer signature.
C25_MockMiningShortCircuits ==
    config.mock_mining =>
       /\ pc = "sign" =>
            \A sortdb_ok \in BOOLEAN, loaded \in LoadOutcomes, coordinator \in SignOutcomes :
               LET g == gather_signatures(miner, config, cur[1], sortdb_ok, loaded,
                                          coordinator)
               IN /\ g.res.err \notin TipErrors
                  /\ g.cache = miner.signer_set_cache
                  /\ g.res.ok => g.res.val = [reward_set |-> miner.signer_set_cache[1],
                                              signature |-> <<>>]
       /\ pc = "broadcast" => cur[1].signer_signature = <<>>
       /\ \A i \in 1..Len(emitted) : emitted[i].signer_signature = <<>>

\* A mock miner's second block is through gather_signatures, unsigned.
C25_Witness ==
    /\ config.mock_mining
    /\ pc = "broadcast"
    /\ cur[1].signer_signature = <<>>
    /\ IsSome(miner.signer_set_cache)
    /\ Len(emitted) = 1

(* ------------------------------ C26 ---------------------------------- *)
\* The blocks of the fork that ends in the canonical Stacks tip.
CanonicalFork ==
    {AncestorsOf(headers, stacks_tip)[i] :
        i \in 1..Len(AncestorsOf(headers, stacks_tip))}

\* The blocks of tenure `ch` on the canonical fork.
OnForkInTenure(ch) == {i \in CanonicalFork : headers[i].ch = ch}

\* The highest of a non-empty set of blocks.
Highest(ids) ==
    CHOOSE i \in ids : \A j \in ids : headers[i].height >= headers[j].height

\* C26: the parent of the block the thread has just built is the highest
\* block of the elected tenure on the canonical fork if there is one, else
\* the highest block of the parent tenure on the canonical fork if there is
\* one, else the block parent_tenure_id; it is a block of one of these two
\* tenures, and it is on the fork of the canonical Stacks tip.
C26_ParentOnCanonicalFork ==
    pc = "built" =>
        LET parent == cur[1].parent_block_id
            elected == OnForkInTenure(miner.burn_election_block)
            parent_tenure == OnForkInTenure(headers[miner.parent_tenure_id].ch)
        IN /\ parent = IF elected # {} THEN Highest(elected)
                       ELSE IF parent_tenure # {} THEN Highest(parent_tenure)
                       ELSE miner.parent_tenure_id
           /\ headers[parent].ch \in {miner.burn_election_block,
                                      headers[miner.parent_tenure_id].ch}
           /\ parent \in CanonicalFork

(* ------------------------------ C27 ---------------------------------- *)
\* C27, as stated: while TEST_SKIP_P2P_BROADCAST is set a broadcast commits
\* nothing, pushes nothing to the peers and sends no BlockPushed message on
\* the signer bus.
C27_SkipSuppressesAll ==
    TEST_SKIP_P2P_BROADCAST => log = <<>>

\* C27, amended: while TEST_SKIP_P2P_BROADCAST is set a broadcast leaves the
\* staging store as it is, commits nothing and pushes nothing to the peers,
\* and cannot fail in broadcast_p2p; the BlockPushed message is still sent,
\* and the broadcast succeeds exactly when that message was sent.
C27_SkipSuppressesPersistAndP2P ==
    TEST_SKIP_P2P_BROADCAST =>
        /\ \A i \in 1..Len(log) : log[i].ev = "bus"
        /\ pc = "broadcast" =>
              \A b \in BroadcastOutcomes :
                 /\ b.staging = staging
                 /\ b.res.err # "AcceptFailure"
                 /\ b.events = IF b.res.ok
                                 THEN <<[ev |-> "bus", id |-> cur[1].id]>>
                                 ELSE <<>>

\* With the hook set the thread has emitted a block that it never stored:
\* all the broadcast left is the BlockPushed message.
C27_Witness ==
    /\ TEST_SKIP_P2P_BROADCAST
    /\ Len(emitted) = 1
    /\ log = <<[ev |-> "bus", id |-> emitted[1].id]>>
    /\ emitted[1].id \notin StagedIds(staging)

(* ------------------------------ C28 ---------------------------------- *)
\* What the preflight finds: the burn tip check, then the parent resolution.
PreflightResult ==
    LET tip == check_burn_tip_changed(miner, burn_tip)
    IN IF tip.ok
         THEN load_block_parent_info(miner, headers, stacks_tip, burn_tip).res
         ELSE tip

\* C28: a mock miner's step at the head of an assembly attempt is the
\* preflight: on ParentNotFound the thread stays at the head of the attempt
\* without exiting and without having entered mine_block (the signer set is
\* not loaded, nothing is built, no initiative raised), on any other error
\* it exits with that very error, and on success it goes on to mine_block;
\* mine_block is entered from nowhere else.
C28_MockPreflight ==
    [][config.mock_mining =>
         /\ (pc = "assemble" /\ (ThreadStep \/ step_err' # step_err)) =>
               IF PreflightResult.ok
                 THEN pc' = "mine" /\ result' = ""
               ELSE IF PreflightResult.err = "ParentNotFound"
                 THEN /\ pc' = "assemble" /\ result' = ""
                      /\ step_err' = "ParentNotFound"
                      /\ miner' = miner /\ cur' = cur
                      /\ initiative' = initiative
               ELSE /\ pc' = "done"
                    /\ result' = PreflightResult.err
                    /\ initiative' = initiative
         /\ (pc' = "mine" /\ pc # "mine") => (pc = "assemble" /\ PreflightResult.ok)
         /\ (pc' = "parent" /\ pc # "parent") => pc = "mine"
      ]_vars

\* A mock miner whose parent tenure is not processed yet has run the
\* preflight, met ParentNotFound and is back at the head of the attempt,
\* still running, the signer set not loaded.
C28_Witness ==
    /\ config.mock_mining
    /\ pc = "assemble"
    /\ step_err = "ParentNotFound"
    /\ result = ""
    /\ miner.parent_tenure_id \notin DOMAIN headers
    /\ IsNone(miner.signer_set_cache)

(* ------------------------------ C29 ---------------------------------- *)
\* What get_highest_block_header_in_tenure may answer: nothing, or one of
\* the headers the node holds.
KnownHeaders == {None} \cup {Some(headers[i]) : i \in DOMAIN headers}

\* C29: where the resolver runs in mine_block, and where a block was built
\* on its answer, for every block the node holds as the parent chosen and every answer
\* `last` for the last block of the parent tenure, the resolver's result has
\* parent_tenure = Some exactly when the parent chosen has the consensus
\* hash of the parent tenure's start block; parent_tenure_blocks is then
\* 1 + last's height - the start block's height for a Nakamoto parent
\* tenure and 1 otherwise; and a parent chosen in a Nakamoto parent tenure
\* that is not `last` makes the resolver fail with NewParentDiscovered.
\* The resolver's own call passes the query's answer as `last`.
C29_ParentTenureInfo ==
    (pc \in {"parent", "built"} /\ miner.parent_tenure_id \in DOMAIN headers) =>
        LET start == headers[miner.parent_tenure_id]
        IN /\ \A id \in DOMAIN headers, last \in KnownHeaders :
                LET chosen == headers[id]
                    r == lookup_info(start, chosen, last)
                IN /\ r.ok =>
                        /\ r.val.stacks_parent_header = chosen
                        /\ IsSome(r.val.parent_tenure) <=> chosen.ch = start.ch
                        /\ IsSome(r.val.parent_tenure) =>
                              /\ r.val.parent_tenure[1].parent_tenure_blocks =
                                    IF start.naka
                                      THEN 1 + (last[1].height - start.height)
                                      ELSE 1
                              /\ r.val.parent_tenure[1].parent_tenure_consensus_hash
                                    = start.ch
                   /\ (chosen.ch = start.ch /\ start.naka /\ last # Some(chosen))
                        => (~r.ok /\ (IsSome(last) => r.err = "NewParentDiscovered"))
                   /\ (chosen.ch # start.ch \/ ~start.naka) => r.ok
           /\ \A id \in DOMAIN headers :
                lookup(headers, burn_tip, burn_tip, miner.parent_tenure_id, headers[id])
                  = lookup_info(start, headers[id],
                                get_highest_block_header_in_tenure(headers, id, start.ch))
           /\ (pc = "built" /\ IsSome(cur[1].tenure_change_tx)) =>
                cur[1].tenure_change_tx[1].payload.previous_tenure_blocks =
                    IF miner.reason.kind = "Extended"
                      THEN get_nakamoto_tenure_length(headers, cur[1].parent_block_id)
                    ELSE IF start.naka
                      THEN 1 + (headers[cur[1].parent_block_id].height - start.height)
                    ELSE 1

\* A BlockFound thread has built its first block on the second block of a
\* Nakamoto parent tenure: the resolver returned parent_tenure = Some with
\* parent_tenure_blocks = 2, which the tenure change carries.
C29_Witness ==
    /\ pc = "built"
    /\ miner.reason.kind = "BlockFound"
    /\ headers = NakamotoChain
    /\ cur[1].parent_block_id = 2
    /\ miner.parent_tenure_id = 1
    /\ cur[1].tenure_change_tx[1].payload.previous_tenure_blocks = 2
    /\ lookup_info(headers[1], headers[2], Some(headers[1])).err = "NewParentDiscovered"

(* ------------------------------ C30 ---------------------------------- *)
\* The thread has emitted no block, and the resolver answers with a parent
\* outside the parent tenure: parent_tenure = None.
NoParentTenure ==
    LET r == load_block_parent_info(miner, headers, stacks_tip, burn_tip).res
    IN /\ IsNone(miner.last_block_mined)
       /\ r.ok
       /\ IsNone(r.val.parent_tenure)

\* C30: a block built by a thread that has emitted none is built on a block
\* of the parent tenure and starts the tenure with a tenure change; and when
\* the resolver returns parent_tenure = None to such a thread, mine_block
\* fails with ParentNotFound: no block is built, no block id is used, and
\* the thread ends as for any other mine_block error.
C30_FirstBlockNeedsParentTenure ==
    /\ [](pc \in {"built", "sign", "broadcast"} /\ IsNone(miner.last_block_mined)
            => /\ headers[cur[1].parent_block_id].ch
                     = headers[miner.parent_tenure_id].ch
               /\ IsSome(cur[1].tenure_change_tx))
    /\ [][(pc = "parent" /\ ThreadStep /\ NoParentTenure) =>
            /\ step_err' = "ParentNotFound"
            /\ cur' = None
            /\ pc' = "done"
            /\ result' = "MiningFailure(MinerAborted)"
            /\ NothingBroadcast]_vars

\* A thread whose first block was stored and processed, though its broadcast
\* failed, finds that block as its parent: it is not in the parent tenure,
\* and the thread has ended on ParentNotFound without building on it.
C30_Witness ==
    /\ pc = "done"
    /\ exit_cause = "ParentNotFound"
    /\ IsNone(miner.last_block_mined)
    /\ cur = None
    /\ miner.parent_tenure_id \in DOMAIN headers
    /\ stacks_tip_header_for(miner, headers, stacks_tip).ok
    /\ stacks_tip_header_for(miner, headers, stacks_tip).val.ch
          # headers[miner.parent_tenure_id].ch

(* ------------------------------ C31 ---------------------------------- *)
\* The block the thread has built and not yet broadcast or dropped.
InHand == pc \in {"built", "sign", "broadcast"}

\* The blocks of the tenure of block `id` from its first block on the fork
\* of `id` up to `id`, counted along the parent links.
RECURSIVE TenureLengthAt(_)
TenureLengthAt(id) ==
    IF headers[id].parent \in DOMAIN headers
         /\ headers[headers[id].parent].ch = headers[id].ch
      THEN 1 + TenureLengthAt(headers[id].parent)
      ELSE 1

\* C31: with N the nonce of the miner's account at the parent, the first
\* block of a BlockFound thread carries a tenure change signed on N, of
\* cause BlockFound, whose previous_tenure_blocks is the parent tenure's
\* length up to the parent, and a coinbase signed on N + 1; the first block
\* of an Extended{burn_view} thread carries a tenure change signed on N, of
\* cause Extended, with that burn view and previous_tenure_blocks the length
\* of the tenure at the parent, and no coinbase; a block built once
\* last_block_mined is set carries neither.
C31_TenureStartTransactions ==
    InHand =>
        LET b == cur[1]
            parent == headers[b.parent_block_id]
            start == headers[miner.parent_tenure_id]
            N == parent.nonce
        IN IF IsSome(miner.last_block_mined)
             THEN IsNone(b.tenure_change_tx) /\ IsNone(b.coinbase_tx)
           ELSE IF miner.reason.kind = "BlockFound"
             THEN /\ IsSome(b.tenure_change_tx) /\ IsSome(b.coinbase_tx)
                  /\ b.tenure_change_tx[1].nonce = N
                  /\ b.tenure_change_tx[1].payload.cause = "BlockFound"
                  /\ b.tenure_change_tx[1].payload.previous_tenure_blocks =
                        IF start.naka THEN 1 + (parent.height - start.height) ELSE 1
                  /\ b.coinbase_tx[1].nonce = N + 1
           ELSE /\ IsSome(b.tenure_change_tx) /\ IsNone(b.coinbase_tx)
                /\ b.tenure_change_tx[1].nonce = N
                /\ b.tenure_change_tx[1].payload.cause = "Extended"
                /\ b.tenure_change_tx[1].payload.burn_view_consensus_hash
                      = miner.reason.burn_view_consensus_hash
                /\ b.tenure_change_tx[1].payload.previous_tenure_blocks
                      = TenureLengthAt(b.parent_block_id)

\* An Extended thread emitted a first block whose tenure change counts the
\* two blocks the tenure had, and has built a second block that carries no
\* tenure-start transaction.
C31_Witness ==
    /\ pc = "built"
    /\ miner.reason.kind = "Extended"
    /\ Len(emitted) = 1
    /\ miner.last_block_mined = Some(emitted[1])
    /\ emitted[1].tenure_change_tx[1].payload.previous_tenure_blocks = 2
    /\ IsNone(cur[1].tenure_change_tx) /\ IsNone(cur[1].coinbase_tx)

(* ------------------------------ C32 ---------------------------------- *)
\* The thread's step is the head of mine_block: the signer set, then the
\* first burn tip check.
AtMineBlockHead ==
    ThreadStep /\ (pc = "mine" \/ (pc = "assemble" /\ ~config.mock_mining))

\* C32: mine_block goes past its first check, and hands the block it built
\* and signed to run_miner, only with the canonical burn tip on burn_block
\* at that check; a check that finds another tip makes mine_block return
\* BurnchainTipChanged, and then the block in hand is dropped, the thread
\* ends, and nothing is signed by the signers, stored or pushed.
C32_MineBlockChecksBurnTip ==
    [][/\ (AtMineBlockHead /\ pc' = "parent") => burn_tip = miner.burn_block
       /\ (AtMineBlockHead /\ burn_tip # miner.burn_block /\ IsSome(miner'.signer_set_cache))
            => step_err' = "BurnchainTipChanged"
       /\ (pc = "built" /\ pc' = "sign") => burn_tip = miner.burn_block
       /\ (pc = "built" /\ ThreadStep /\ burn_tip # miner.burn_block)
            => step_err' = "BurnchainTipChanged"
       /\ ((AtMineBlockHead \/ (pc = "built" /\ ThreadStep))
              /\ step_err' = "BurnchainTipChanged")
            => /\ cur' = None
               /\ pc' = "done"
               /\ NothingBroadcast]_vars

\* After a first block the thread has built and signed a second one, and the
\* canonical burn tip has moved since mine_block's first check: the last
\* check is about to find it.
C32_Witness ==
    /\ pc = "built"
    /\ cur[1].miner_signature
    /\ burn_tip # miner.burn_block
    /\ Len(emitted) = 1

(* ------------------------------ C33 ---------------------------------- *)
\* C33: missed_tenures is 0 or 1; it is 1 only in a thread that has ended on
\* BurnchainTipChanged with the canonical burn tip off its burn_block; and
\* every step in which the thread itself finds the tip changed (in
\* check_burn_tip_changed or in the resolver's lookup, not in the signing
\* coordinator) adds exactly one to it, while no other step changes it.
C33_MissedTenuresOnce ==
    /\ [](/\ counters.missed_tenures \in {0, 1}
          /\ counters.missed_tenures = 1 =>
                /\ pc = "done"
                /\ step_err = "BurnchainTipChanged"
                /\ burn_tip # miner.burn_block)
    /\ [][counters'.missed_tenures =
            IF BurnTipCheckFailed THEN counters.missed_tenures + 1
                                  ELSE counters.missed_tenures]_vars

\* A mock miner's preflight found the burn tip changed: the thread has
\* returned BurnchainTipChanged and counted one missed tenure.
C33_Witness ==
    /\ config.mock_mining
    /\ pc = "done"
    /\ result = "BurnchainTipChanged"
    /\ exit_cause = "BurnchainTipChanged"
    /\ counters.missed_tenures = 1
    /\ burn_tip # miner.burn_block

(* ------------------------------ C34 ---------------------------------- *)
\* The errors run_miner returns from its loop and before it: the ones the
\* mock miner's preflight may add are those of the resolver.
RunMinerErrors ==
    {"MiningFailure(MinerAborted)", "MiningFailure(NetError)", "ParentNotFound",
     "StacksTipChanged", "BurnchainTipChanged"}
PreflightErrors ==
    {"BurnchainTipChanged", "NewParentDiscovered", "UnexpectedChainState"}

\* C34: a thread that has returned has returned an error, one of
\* MiningFailure(MinerAborted), MiningFailure(NetError), ParentNotFound,
\* StacksTipChanged, BurnchainTipChanged or, for a mock miner, an error of
\* its preflight; a running thread has returned nothing, and the errors the
\* loop retries on are never returned.
C34_NeverReturnsOk ==
    IF pc = "done"
      THEN /\ result # ""
           /\ result \in RunMinerErrors
                 \cup (IF config.mock_mining THEN PreflightErrors ELSE {})
           /\ exit_cause # ""
      ELSE result = ""

\* A thread that emitted a block has returned: the signing coordinator
\* reported a new Stacks tip for the next one.
C34_Witness ==
    /\ pc = "done"
    /\ Len(emitted) = 1
    /\ result = "StacksTipChanged"

(* ------------------------------ C35 ---------------------------------- *)
\* The steps of the miner thread that call neither the parent resolver nor
\* the block builder.
ThreadNext ==
    \/ run_miner_start
    \/ mine_block_begin
    \/ mine_block_finish
    \/ run_miner_sign
    \/ run_miner_broadcast
    \/ run_miner_wait_poll
    \/ run_miner_wait_done

\* The mock miner's preflight can take a step that changes the state: it is
\* at the head of an attempt and does not just repeat a ParentNotFound.
PreflightCanStep ==
    /\ pc = "assemble"
    /\ config.mock_mining
    /\ ~(PreflightResult.err = "ParentNotFound" /\ step_err = "ParentNotFound")

\* mine_block can go on from the resolver to the builder.
BuildCanStep ==
    /\ pc = "parent"
    /\ FreshId <= MaxBuilt + 2 \/ burn_tip # miner.burn_block

\* The threads followed to their end: a BlockFound miner with the usual
\* configuration, and a mock miner whose parent tenure is not processed yet.
InitFair ==
    /\ LifeInit
    /\ Idle
    /\ headers = NakamotoChain
    /\ stacks_tip = 2
    /\ TEST_SKIP_P2P_BROADCAST = FALSE
    /\ \/ /\ config = DefaultConfig
          /\ miner = new("chE", "chE", 1, BlockFound)
       \/ /\ config = MockMining
          /\ miner = new("chE", "chE", 3, BlockFound)
    /\ burn_tip = miner.burn_block

\* Fair scheduling, every call of the thread returning: a step of the
\* thread that stays possible is taken.  For the preflight and for the
\* resolver and builder in mine_block this is weak fairness written out,
\* with PreflightCanStep and BuildCanStep telling when the step is possible.
SpecFair ==
    /\ InitFair /\ [][Next]_vars
    /\ WF_vars(ThreadNext)
    /\ ([]<>~PreflightCanStep \/ []<><<run_miner_preflight>>_vars)
    /\ ([]<>~BuildCanStep \/ []<><<mine_block_build>>_vars)

\* C35: once the canonical burn tip is off the thread's burn_block (it does
\* not come back), the thread terminates, whatever it was doing.
C35_TipChangeTerminates ==
    (burn_tip # miner.burn_block) ~> (pc = "done")

\* A mock miner that was repeating its preflight, its parent tenure not
\* processed, has terminated after the burn tip moved.
C35_Witness ==
    /\ config.mock_mining
    /\ miner.parent_tenure_id \notin DOMAIN headers
    /\ burn_tip # miner.burn_block
    /\ pc = "done"
    /\ result = "BurnchainTipChanged"

(* ------------------------------ C36 ------------------------------------ *)
\* C36: whenever gather_signatures is invoked the signer set cache is
\* already filled.  From the moment mine_block has loaded the signer set
\* until the block is broadcast the cache holds a set; and for the block
\* about to be signed, whatever the reward-set loader would give now,
\* load_signer_set in gather_signatures does not consult it: it returns the
\* cached set, the one mine_block loaded, leaves the cache as it is, and an
\* Ok of gather_signatures carries that set.
C36_SignerSetCachedBeforeSigning ==
    /\ pc \in {"parent", "built", "sign", "broadcast"} => IsSome(miner.signer_set_cache)
    /\ pc = "sign" =>
         \A sortdb_ok \in BOOLEAN, loaded \in LoadOutcomes, coordinator \in SignOutcomes :
            LET ls == load_signer_set(miner, loaded)
                g == gather_signatures(miner, config, cur[1], sortdb_ok, loaded,
                                       coordinator)
            IN /\ ~ls.reloaded
               /\ ls.res = Ok(miner.signer_set_cache[1])
               /\ g.cache = miner.signer_set_cache
               /\ g.res.ok => g.res.val.reward_set = miner.signer_set_cache[1]

\* The thread's second block is about to be signed, at a time when the
\* reward-set loader might give another set than the cached one.
C36_Witness ==
    /\ pc = "sign"
    /\ Len(emitted) = 1
    /\ IsSome(miner.signer_set_cache)
    /\ \E loaded \in LoadOutcomes : loaded.ok /\ loaded.val # miner.signer_set_cache[1]

(* ------------------------------ C37 ------------------------------------ *)
\* The events of the last broadcast hold `ev` for block `id`.
Logged(l, ev, id) == \E i \in 1..Len(l) : l[i] = [ev |-> ev, id |-> id]

\* The step is a broadcast whose signer-bus push failed.
BusPushFailed == pc = "broadcast" /\ pc' # "broadcast"
                 /\ step_err' = "SigningCoordinatorFailure"

\* C37: when the signer-bus push of broadcast fails, the block committed
\* before it or not, the thread records nothing: last_block_mined (the whole
\* struct), the counters, the announcements to the chains coordinator and
\* the blocks broadcast are as they were, the block is dropped and the thread
\* is back at block assembly; if the block was committed it stays in the
\* staging store.  And last_block_mined is only ever set to a block whose
\* signer-bus push succeeded.
C37_BusPushFailureRecordsNothing ==
    [][/\ BusPushFailed =>
            /\ miner' = miner
            /\ counters' = counters
            /\ announced' = announced
            /\ emitted' = emitted
            /\ pc' = "assemble"
            /\ cur' = None
            /\ Logged(log', "commit", cur[1].id) => cur[1].id \in StagedIds(staging')
            /\ ~Logged(log', "bus", cur[1].id)
       /\ miner'.last_block_mined # miner.last_block_mined =>
            /\ IsSome(miner'.last_block_mined)
            /\ Logged(log', "bus", miner'.last_block_mined[1].id)]_vars

\* The thread's first block was committed and pushed to the peers, the
\* signer-bus push failed, and the thread, back at block assembly, has no
\* last_block_mined.
C37_Witness ==
    /\ pc = "assemble"
    /\ step_err = "SigningCoordinatorFailure"
    /\ Len(log) = 2
    /\ log[1].ev = "commit" /\ log[2].ev = "p2p"
    /\ log[1].id \in StagedIds(staging)
    /\ IsNone(miner.last_block_mined)
    /\ emitted = <<>>
    /\ counters.mined_blocks = 0

(* ------------------------------ C38 ------------------------------------ *)
\* Consensus hashes the canonical burn chain tip may have.
TipHashes == {"chE", "chNew", "chO", "chP", "chQ"}

\* C38: burn_block, burn_election_block, parent_tenure_id and reason are
\* fixed at construction: no step changes them (a step changes at most
\* last_block_mined and signer_set_cache), so for every burn tip the
\* burn tip check answers after the step what it answered before it.
C38_ConstructionFieldsFixed ==
    [][/\ miner'.burn_block = miner.burn_block
       /\ miner'.burn_election_block = miner.burn_election_block
       /\ miner'.parent_tenure_id = miner.parent_tenure_id
       /\ miner'.reason = miner.reason
       /\ miner' = [miner EXCEPT !.last_block_mined = miner'.last_block_mined,
                                 !.signer_set_cache = miner'.signer_set_cache]
       /\ \A tip_ch \in TipHashes \cup {burn_tip, burn_tip'} :
             check_burn_tip_changed(miner', tip_ch) = check_burn_tip_changed(miner, tip_ch)]_vars

\* The thread has gone through the whole loop twice, changed both of its
\* changing fields, and ended on a burn tip check against burn_block.
C38_Witness ==
    /\ pc = "done"
    /\ result = "BurnchainTipChanged"
    /\ Len(emitted) = 2
    /\ miner.last_block_mined = Some(emitted[2])
    /\ IsSome(miner.signer_set_cache)
    /\ burn_tip # miner.burn_block

(* ------------------------------ C39 ------------------------------------ *)
\* miner.min_time_between_blocks_ms: none, below a second, whole seconds and
\* in between.
MinGaps == {0, 1, 500, 1000, 1001, 1500, 2000}

\* The chain tip the thread builds on, Nakamoto or epoch 2, with any block
\* timestamp and any burn header timestamp up to MaxTime.
TimedChains ==
    {[NakamotoChain EXCEPT ![2].ts = p, ![2].burn_ts = q] : p, q \in 0..MaxTime}
       \cup {[Epoch2Chain EXCEPT ![1].ts = p, ![1].burn_ts = q] : p, q \in 0..MaxTime}

\* A tenure's first thread with a clock at 0, behind the parent's or not.
InitTime ==
    /\ LifeInit
    /\ Idle
    /\ config \in {[DefaultConfig EXCEPT !.min_time_between_blocks_ms = m] : m \in MinGaps}
    /\ headers \in TimedChains
    /\ miner = new("chE", "chE", 1, BlockFound)
    /\ TEST_SKIP_P2P_BROADCAST = FALSE
    /\ stacks_tip \in DOMAIN headers
    /\ \A i \in DOMAIN headers : headers[i].height <= headers[stacks_tip].height
    /\ burn_tip = miner.burn_block

\* The inner loop of run_miner up to the block mine_block returned and
\* validate_timestamp passed.
NextTime == run_miner_start \/ mine_block_begin \/ mine_block_build \/ mine_block_finish

SpecTime == InitTime /\ [][NextTime]_vars

\* The parent's timestamp as the second in which the parent was mined.
TimestampOf(h) == IF h.naka THEN h.ts ELSE h.burn_ts

\* The whole seconds from p to t, none if t is not after p.
GapSecs(t, p) == IF t > p THEN t - p ELSE 0

\* ms rounded up to whole seconds.
CeilSecs(ms) == (ms + 999) \div 1000

\* C39: the time-gap check accepts a timestamp t against a parent of
\* timestamp p exactly when max(t - p, 0) * 1000 >= min_time_between_blocks_ms:
\* the gap is 0 when t is not after p, a gap of 0 is accepted only with a
\* minimum of 0, and the gap required is the minimum rounded up to whole
\* seconds.  A block is built only when the check accepted the clock, and goes
\* on to signing only when the same check accepted the block's timestamp.
C39_TimeGapCheck ==
    /\ \A t \in 0..(MaxTime + 1), i \in DOMAIN headers :
          LET p == TimestampOf(headers[i])
              min == config.min_time_between_blocks_ms
              accepted == validate_timestamp_info(config, t, headers[i])
          IN /\ accepted <=> (Max(t - p, 0) * 1000 >= min)
             /\ accepted <=> (GapSecs(t, p) >= CeilSecs(min))
             /\ t <= p => (accepted <=> min = 0)
    /\ pc = "built" =>
          GapSecs(now, ParentTimestamp(cur[1])) >= CeilSecs(config.min_time_between_blocks_ms)
    /\ pc = "sign" =>
          /\ validate_timestamp(config, headers, cur[1])
                = Ok(validate_timestamp_info(config, cur[1].timestamp,
                                             headers[cur[1].parent_block_id]))
          /\ GapSecs(cur[1].timestamp, ParentTimestamp(cur[1]))
                >= CeilSecs(config.min_time_between_blocks_ms)

\* With a minimum of a second and a half, a block stamped two seconds after
\* its parent has passed both checks.
C39_Witness ==
    /\ pc = "sign"
    /\ config.min_time_between_blocks_ms = 1500
    /\ cur[1].timestamp = ParentTimestamp(cur[1]) + 2
    /\ now = cur[1].timestamp


====
